---------------------------- MODULE Spec2Model ----------------------------
(***************************************************************************)
(* A model of the granola command-line tool: the cache query layer         *)
(* (src/src/cache.ts: GranolaCache, formatDocument, formatTranscript) and  *)
(* the command dispatcher (src/unnamed/part_002: parseArgs, listMeetings,  *)
(* showMeeting, searchMeetings, exportMeeting, main).                      *)
(*                                                                         *)
(* Representation.  A JavaScript string is a sequence of one-character     *)
(* strings.  An optional string field that is absent is the empty          *)
(* sequence: every use of such a field in the source goes through `||` or  *)
(* `?.`, which treat undefined and "" alike.  A number that may be NaN is  *)
(* a sequence of length at most one: << >> is NaN, <<n>> is n.  Instants   *)
(* are milliseconds counted from an arbitrary origin (00:00 UTC of         *)
(* 2026-01-01), so that they fit TLC's integers.                           *)
(***************************************************************************)
EXTENDS Integers, Sequences, FiniteSets, TLC

VARIABLES
    documents,   \* state.documents, in the enumeration order of Object.values
    transcripts, \* state.transcripts: document id -> sequence of segments
    now,         \* the instant `new Date()` returns during this invocation
    argv,        \* process.argv.slice(2)
    pc,          \* position of main()
    parsed,      \* the result of parseArgs: [command, positional, flags]
    doc,         \* the local `doc` of showMeeting / exportMeeting
    listed,      \* the local `docs` of listMeetings, `results` of searchMeetings
    stdout,      \* what console.log has written, one entry per call
    stderr,      \* what console.error has written, one entry per call
    exitCode,    \* << >> while running, <<n>> once the process has exited
    fs,          \* the regular files on disk: path -> content
    dirs,        \* the directories on disk
    calls        \* direct calls of the library functions: [op, arg, ret, ...]

vars == <<documents, transcripts, now, argv, pc, parsed, doc,
          listed, stdout, stderr, exitCode, fs, dirs, calls>>

(***************************************************************************)
(* Bounds of the model.                                                    *)
(***************************************************************************)
MaxDocs == 2          \* documents in a snapshot given to the command line
MaxRecentDocs == 3    \* documents in a snapshot given to getRecentDocuments
MaxSearchDocs == 2    \* documents in a snapshot given to searchDocuments
MaxAttendees == 2     \* attendees without a name or an email in one document
MaxSegs == 2          \* segments in a transcript
MaxCalls == 2         \* direct calls of a library function in one behaviour

(***************************************************************************)
(* JavaScript strings.                                                     *)
(***************************************************************************)
Min(a, b) == IF a < b THEN a ELSE b
Max(a, b) == IF a > b THEN a ELSE b

\* String.prototype.startsWith
StartsWith(s, p) ==
    /\ Len(p) <= Len(s)
    /\ SubSeq(s, 1, Len(p)) = p

\* String.prototype.slice(begin, end) for 0 <= begin, 0 <= end
Slice(s, begin, end) == SubSeq(s, begin + 1, Min(end, Len(s)))

\* String.prototype.includes
Includes(s, q) ==
    \E i \in 1..(Len(s) + 1) :
        /\ i + Len(q) - 1 <= Len(s)
        /\ SubSeq(s, i, i + Len(q) - 1) = q

UpperChars == <<"A", "B", "R">>
LowerChars == <<"a", "b", "r">>

\* String.prototype.toLowerCase, for one character
LowerChar(c) ==
    IF \E i \in DOMAIN UpperChars : UpperChars[i] = c
    THEN LowerChars[CHOOSE i \in DOMAIN UpperChars : UpperChars[i] = c]
    ELSE c

\* String.prototype.toLowerCase
ToLowerCase(s) == [i \in DOMAIN s |-> LowerChar(s[i])]

RECURSIVE Join(_, _)
\* Array.prototype.join
Join(parts, sep) ==
    IF Len(parts) = 0 THEN << >>
    ELSE IF Len(parts) = 1 THEN parts[1]
    ELSE parts[1] \o sep \o Join(Tail(parts), sep)

\* a || b on strings: the empty string is falsy
OrElse(a, b) == IF a # << >> THEN a ELSE b

(***************************************************************************)
(* Numbers that may be NaN, and dates.                                     *)
(***************************************************************************)
NaN == << >>
Num(n) == <<n>>
IsNaN(x) == x = << >>

MsPerDay == 24 * 60 * 60 * 1000

\* new Date(s).getTime(): a timestamp string is modelled by the instant it
\* denotes, <<ms>>, or by << >> when Date cannot parse it (Invalid Date).
DateGetTime(s) == IF Len(s) = 1 THEN Num(s[1]) ELSE NaN

\* a - b on numbers
Minus(a, b) == IF IsNaN(a) \/ IsNaN(b) THEN NaN ELSE Num(a[1] - b[1])

\* a >= b on numbers: false when either side is NaN
GreaterEq(a, b) == ~IsNaN(a) /\ ~IsNaN(b) /\ a[1] >= b[1]

(***************************************************************************)
(* Array.prototype.sort(comparefn).  The result of the comparator on the   *)
(* elements at i and j is cmp[i][j] (NaN counts as +0, ECMA-262            *)
(* SortCompare).  For a consistent comparator the sort is stable, so the   *)
(* result is determined: i goes before j iff it compares lower, or         *)
(* compares equal and came first.                                          *)
(***************************************************************************)
CmpValue(v) == IF IsNaN(v) THEN 0 ELSE v[1]

SortedBefore(cmp, i, j) ==
    \/ CmpValue(cmp[i][j]) < 0
    \/ CmpValue(cmp[i][j]) = 0 /\ i < j

SortRank(cmp, n, i) == Cardinality({j \in 1..n : j # i /\ SortedBefore(cmp, j, i)}) + 1

StableSort(s, cmp) ==
    [p \in 1..Len(s) |-> s[CHOOSE i \in 1..Len(s) : SortRank(cmp, Len(s), i) = p]]

\* A comparator is consistent on s when "compares equal" is an equivalence
\* and "compares lower" is a strict order compatible with it.
ConsistentCmp(cmp, n) ==
    \A i, j, k \in 1..n :
        /\ CmpValue(cmp[i][i]) = 0
        /\ (CmpValue(cmp[i][j]) < 0) <=> (CmpValue(cmp[j][i]) > 0)
        /\ (CmpValue(cmp[i][j]) = 0 /\ CmpValue(cmp[j][k]) = 0)
              => CmpValue(cmp[i][k]) = 0
        /\ (CmpValue(cmp[i][j]) < 0 /\ CmpValue(cmp[j][k]) <= 0)
              => CmpValue(cmp[i][k]) < 0
        /\ (CmpValue(cmp[i][j]) <= 0 /\ CmpValue(cmp[j][k]) < 0)
              => CmpValue(cmp[i][k]) < 0

\* The permutations of a sequence
SeqPermutations(s) ==
    {[p \in 1..Len(s) |-> s[f[p]]] :
        f \in {g \in [1..Len(s) -> 1..Len(s)] :
                 \A a, b \in 1..Len(s) : a # b => g[a] # g[b]}}

\* The arrays sort may leave behind: the stable order for a consistent
\* comparator, an implementation-defined order otherwise.
SortOutcomes(s, cmp) ==
    IF ConsistentCmp(cmp, Len(s)) THEN {StableSort(s, cmp)} ELSE SeqPermutations(s)

(***************************************************************************)
(* The file system.  A path is a string; a file's content is a sequence of *)
(* lines.  The cache file holds JSON that parses to `documents` and        *)
(* `transcripts`, or text that JSON.parse rejects.                         *)
(***************************************************************************)
CACHE_PATH ==
    <<"/", "h", "o", "m", "e", "/", "L", "i", "b", "r", "a", "r", "y", "/",
      "A", "p", "p", "l", "i", "c", "a", "t", "i", "o", "n", " ", "S", "u",
      "p", "p", "o", "r", "t", "/", "G", "r", "a", "n", "o", "l", "a", "/",
      "c", "a", "c", "h", "e", "-", "v", "3", ".", "j", "s", "o", "n">>

\* the directory of the cache file
CACHE_DIR == SubSeq(CACHE_PATH, 1, Len(CACHE_PATH) - Len(<<"/", "c", "a", "c", "h", "e", "-", "v", "3", ".", "j", "s", "o", "n">>))

\* one line of text: plain, or carrying a rendered instant
Line(kind, text) == [kind |-> kind, time |-> NaN, text |-> text]
LineAt(kind, time, text) == [kind |-> kind, time |-> time, text |-> text]

CacheJson == <<Line("json", <<"{", "\"", "c", "a", "c", "h", "e", "\"", ":", "\"", ".", ".", ".", "\"", "}">>)>>
MalformedJson == <<Line("json", <<"{", "\"", "c", "a", "c", "h", "e", "\"", ":">>)>>

(***************************************************************************)
(* Documents, people and transcript segments (cache.ts, lines 11-53).      *)
(***************************************************************************)
Person(fullName, email) == [fullName |-> fullName, email |-> email]

\* an attendee with neither a resolved full name nor an email
NoPerson == Person(<< >>, << >>)

Document(id, title, created_at, notes_markdown, notes_plain, summary, attendees) ==
    [id |-> id, title |-> title, created_at |-> created_at,
     notes_markdown |-> notes_markdown, notes_plain |-> notes_plain,
     summary |-> summary, attendees |-> attendees]

TranscriptSegment(start_timestamp, text) ==
    [start_timestamp |-> start_timestamp, text |-> text]

(***************************************************************************)
(* GranolaCache accessors.  The documents mapping is keyed by document id  *)
(* (the snapshots drawn by Init give every entry the key doc.id), and      *)
(* `documents` lists its values in enumeration order.                      *)
(***************************************************************************)
getDocuments == documents

\* getDocument(id): << >> is undefined, <<d>> is the document d
getDocument(id) ==
    IF \E i \in DOMAIN documents : documents[i].id = id
    THEN <<documents[CHOOSE i \in DOMAIN documents : documents[i].id = id]>>
    ELSE << >>

getTranscript(documentId) ==
    IF documentId \in DOMAIN transcripts THEN transcripts[documentId] ELSE << >>

AttendeeIdentityEmailFirst(a) == OrElse(a.email, OrElse(a.fullName, << >>))

\* a.details?.person?.name?.fullName || a.email || ""
AttendeeIdentity(a) == OrElse(a.fullName, OrElse(a.email, << >>))

SearchQueryRaw(query) == query

\* const q = query.toLowerCase()
SearchQuery(query) == ToLowerCase(query)

\* doc.people?.attendees?.map(...).join(" ").toLowerCase() || ""
AttendeesText(d) ==
    ToLowerCase(Join([i \in DOMAIN d.attendees |-> AttendeeIdentity(d.attendees[i])],
                     <<" ">>))

\* the filter predicate of searchDocuments
SearchMatches(d, q) ==
    \/ Includes(ToLowerCase(d.title), q)
    \/ Includes(ToLowerCase(d.notes_plain), q)
    \/ Includes(AttendeesText(d), q)

searchDocuments(query) ==
    SelectSeq(getDocuments, LAMBDA d : SearchMatches(d, SearchQuery(query)))

\* cutoff.setDate(cutoff.getDate() - days): the current instant moved back
\* by `days` calendar days (no daylight-saving change inside the window)
Cutoff(days) == Num(now - days * MsPerDay)

RecentFilterStrict(d, cutoff) ==
    /\ GreaterEq(DateGetTime(d.created_at), cutoff)
    /\ DateGetTime(d.created_at) # cutoff

\* new Date(doc.created_at) >= cutoff
RecentFilter(d, cutoff) == GreaterEq(DateGetTime(d.created_at), cutoff)

RecentCompareAscending(a, b) ==
    Minus(DateGetTime(a.created_at), DateGetTime(b.created_at))

\* (a, b) => new Date(b.created_at).getTime() - new Date(a.created_at).getTime()
RecentCompare(a, b) ==
    Minus(DateGetTime(b.created_at), DateGetTime(a.created_at))

\* the arrays getRecentDocuments(days) may return
getRecentDocuments(days) ==
    LET kept == SelectSeq(getDocuments, LAMBDA d : RecentFilter(d, Cutoff(days)))
        cmp == [i \in DOMAIN kept |-> [j \in DOMAIN kept |->
                    RecentCompare(kept[i], kept[j])]]
    IN  SortOutcomes(kept, cmp)

(***************************************************************************)
(* formatTranscript (cache.ts, lines 165-179).                             *)
(***************************************************************************)
\* Date.prototype.toLocaleTimeString: the time of day to the second (the
\* date and the milliseconds are lost); << >> renders "Invalid Date"
ToLocaleTimeString(t) ==
    IF IsNaN(t) THEN NaN ELSE Num((t[1] \div 1000) % (24 * 60 * 60))

NoTranscriptAvailable ==
    <<"N", "o", " ", "t", "r", "a", "n", "s", "c", "r", "i", "p", "t", " ",
      "a", "v", "a", "i", "l", "a", "b", "l", "e", ".">>

\* one line of output: plain text, or `[${time}] ${seg.text}`
TextLine(text) == Line("text", text)
TimedLine(time, text) == LineAt("timed", time, text)

\* the comparator with the timestamps left unparsed: string - string is NaN
TranscriptCompareUnparsed(a, b) == NaN

\* (a, b) => new Date(a.start_timestamp).getTime() - new Date(b.start_timestamp).getTime()
TranscriptCompare(a, b) ==
    Minus(DateGetTime(a.start_timestamp), DateGetTime(b.start_timestamp))

\* the arrays segments.sort(...) may leave in place of `segments`
TranscriptSorted(segments) ==
    SortOutcomes(segments,
        [i \in DOMAIN segments |-> [j \in DOMAIN segments |->
            TranscriptCompare(segments[i], segments[j])]])

\* .map((seg) => `[${time}] ${seg.text}`).join("\n"), on the sorted array
TranscriptLines(sorted) ==
    [i \in DOMAIN sorted |->
        TimedLine(ToLocaleTimeString(DateGetTime(sorted[i].start_timestamp)),
                  sorted[i].text)]

\* formatTranscript(segments): the possible pairs of the string returned
\* and the caller's array afterwards (sort works in place)
formatTranscript(segments) ==
    IF Len(segments) = 0
    THEN {[ret |-> <<TextLine(NoTranscriptAvailable)>>, after |-> segments]}
    ELSE {[ret |-> TranscriptLines(sorted), after |-> sorted] :
            sorted \in TranscriptSorted(segments)}

(***************************************************************************)
(* Inputs shared by the specifications.                                    *)
(***************************************************************************)
Digits == <<"0", "1", "2", "3", "4", "5", "6", "7", "8", "9">>

\* the identifier of the i-th document of a library snapshot
DocId(i) == <<"d", Digits[i + 1]>>

\* the current instant: noon of the eleventh day after the origin
Now0 == 10 * MsPerDay + 12 * 60 * 60 * 1000

Reverse(s) == [i \in DOMAIN s |-> s[Len(s) + 1 - i]]

SeqsUpTo(S, n) == UNION {[1..k -> S] : k \in 0..n}

Range(s) == {s[i] : i \in DOMAIN s}

Injective(s) == \A i, j \in DOMAIN s : i # j => s[i] # s[j]

\* the command-line variables while a library function is called directly
CliIdle ==
    /\ argv = << >>
    /\ pc = "lib"
    /\ parsed = << >>
    /\ doc = << >>
    /\ listed = << >>
    /\ stdout = << >>
    /\ stderr = << >>
    /\ exitCode = << >>
    /\ fs = (CACHE_PATH :> CacheJson)
    /\ dirs = {CACHE_DIR}

CliUnchanged ==
    UNCHANGED <<argv, pc, parsed, doc, listed, stdout, stderr,
                exitCode, fs, dirs>>

(***************************************************************************)
(* parseArgs (part_002, lines 34-63).  A flag's value is the boolean true  *)
(* or a string; a flag that was not given is undefined.                    *)
(***************************************************************************)
FlagTrue == [bool |-> TRUE, str |-> << >>]
FlagString(str) == [bool |-> FALSE, str |-> str]
Undefined == [bool |-> FALSE, str |-> << >>]

\* the truthiness of a flag's value
Truthy(v) == v.bool \/ v.str # << >>

Dash == <<"-">>
DashDash == <<"-", "-">>

RECURSIVE parseArgsFrom(_, _, _)
\* the loop of parseArgs from index i (1-based) with the results so far
parseArgsFrom(args, i, acc) ==
    IF i > Len(args) THEN acc
    ELSE LET arg == args[i] IN
        IF acc.command = << >> /\ ~StartsWith(arg, Dash)
        THEN parseArgsFrom(args, i + 1, [acc EXCEPT !.command = arg])
        ELSE IF StartsWith(arg, DashDash)
        THEN LET key == Slice(arg, 2, Len(arg))
                 takes == /\ i + 1 <= Len(args)
                          /\ args[i + 1] # << >>
                          /\ ~StartsWith(args[i + 1], Dash)
             IN  IF takes
                 THEN parseArgsFrom(args, i + 2,
                        [acc EXCEPT !.flags = (key :> FlagString(args[i + 1])) @@ @])
                 ELSE parseArgsFrom(args, i + 1,
                        [acc EXCEPT !.flags = (key :> FlagTrue) @@ @])
        ELSE IF ~StartsWith(arg, Dash)
        THEN parseArgsFrom(args, i + 1,
                [acc EXCEPT !.positional = Append(@, arg)])
        ELSE parseArgsFrom(args, i + 1, acc)

\* parseArgs with the command taken from the first token without a dash,
\* also when a flag before it took that token as its value
parseArgsFirstToken(args) ==
    [parseArgsFrom(args, 1, [command |-> << >>, positional |-> << >>, flags |-> << >>])
        EXCEPT !.command = IF \A i \in DOMAIN args : StartsWith(args[i], Dash) THEN << >>
                           ELSE args[CHOOSE i \in DOMAIN args :
                                       /\ ~StartsWith(args[i], Dash)
                                       /\ \A j \in 1..(i - 1) : StartsWith(args[j], Dash)]]

\* parseArgs with every flag the boolean true, whatever followed it
parseArgsBooleanFlags(args) ==
    [parseArgsFrom(args, 1, [command |-> << >>, positional |-> << >>, flags |-> << >>])
        EXCEPT !.flags = [key \in DOMAIN @ |-> FlagTrue]]

parseArgs(args) ==
    parseArgsFrom(args, 1, [command |-> << >>, positional |-> << >>, flags |-> << >>])

\* flags.key
Flag(flags, key) == IF key \in DOMAIN flags THEN flags[key] ELSE Undefined

\* positional[0]: the empty string when there is none (both are falsy)
Positional0(positional) == IF Len(positional) = 0 THEN << >> ELSE positional[1]

IsDigit(c) == \E i \in DOMAIN Digits : Digits[i] = c

DigitValue(c) == (CHOOSE i \in DOMAIN Digits : Digits[i] = c) - 1

RECURSIVE DigitsValue(_, _)
\* the value of the longest prefix of s made of digits, after acc
DigitsValue(s, acc) ==
    IF Len(s) = 0 \/ ~IsDigit(s[1]) THEN acc
    ELSE DigitsValue(Tail(s), 10 * acc + DigitValue(s[1]))

RECURSIVE TrimStart(_)
TrimStart(s) == IF Len(s) > 0 /\ s[1] = " " THEN TrimStart(Tail(s)) ELSE s

\* parseInt(v): leading blanks, an optional sign, then digits; NaN when no
\* digit follows (also for true and undefined)
parseInt(v) ==
    LET t == TrimStart(v.str)
        neg == Len(t) > 0 /\ t[1] = "-"
        body == IF Len(t) > 0 /\ t[1] \in {"-", "+"} THEN Tail(t) ELSE t
    IN  IF v.bool \/ Len(body) = 0 \/ ~IsDigit(body[1]) THEN NaN
        ELSE Num((IF neg THEN -1 ELSE 1) * DigitsValue(body, 0))

DefaultDays == 7

\* parseInt(flags.days as string) || 7
DaysOf(flags) ==
    LET n == parseInt(Flag(flags, <<"d", "a", "y", "s">>))
    IN  IF IsNaN(n) \/ n[1] = 0 THEN DefaultDays ELSE n[1]

DefaultOutputDir == <<".", "/", "g", "r", "a", "n", "o", "l", "a", "-", "e", "x", "p", "o", "r", "t", "s">>

\* (flags.output as string) || "./granola-exports": the boolean true when
\* --output was given without a value
OutputDirOf(flags) ==
    IF Truthy(Flag(flags, <<"o", "u", "t", "p", "u", "t">>))
    THEN Flag(flags, <<"o", "u", "t", "p", "u", "t">>)
    ELSE FlagString(DefaultOutputDir)

(***************************************************************************)
(* formatDocument (cache.ts, lines 131-162).                               *)
(***************************************************************************)
Unknown == <<"U", "n", "k", "n", "o", "w", "n">>

\* Date.prototype.toLocaleString: date and time of day, to the second
ToLocaleString(t) == IF IsNaN(t) THEN NaN ELSE Num(t[1] \div 1000)

\* a.details?.person?.name?.fullName || a.email || "Unknown", for each attendee
AttendeeNames(d) ==
    SelectSeq([i \in DOMAIN d.attendees |->
                  OrElse(d.attendees[i].fullName, OrElse(d.attendees[i].email, Unknown))],
              LAMBDA n : n # << >>)

formatDocument(d, includeNotes) ==
    <<Line("h1", d.title), Line("blank", << >>), Line("id", d.id),
      LineAt("date", ToLocaleString(DateGetTime(d.created_at)), << >>)>>
    \o (IF Len(AttendeeNames(d)) > 0
        THEN <<Line("participants", Join(AttendeeNames(d), <<",", " ">>))>>
        ELSE << >>)
    \o (IF d.summary # << >>
        THEN <<Line("blank", << >>), Line("h2", <<"S", "u", "m", "m", "a", "r", "y">>),
               Line("body", d.summary)>>
        ELSE << >>)
    \o (IF includeNotes /\ d.notes_markdown # << >>
        THEN <<Line("blank", << >>), Line("h2", <<"N", "o", "t", "e", "s">>),
               Line("body", d.notes_markdown)>>
        ELSE << >>)

(***************************************************************************)
(* Identifier resolution in showMeeting (part_002, lines 105-126) and in   *)
(* exportMeeting (lines 162-183).  The result is the document found, or    *)
(* the error printed before process.exit(1).                               *)
(***************************************************************************)
FullIdLength == 36
ListIdLength == 8
CandidateIdLength == 12

Found(d) == [kind |-> "found", doc |-> <<d>>, stderr |-> << >>]

\* `Multiple meetings match "${id}". Be more specific:` and one line per match
Ambiguous(id, matches) ==
    [kind |-> "ambiguous", doc |-> << >>,
     stderr |-> <<Line("multiple", id)>> \o
                [i \in DOMAIN matches |->
                    Line("candidate", Slice(matches[i].id, 0, CandidateIdLength)
                                      \o <<" ", "-", " ">> \o matches[i].title)]]

\* `Meeting not found: ${id}`
NotFound(id) == [kind |-> "notfound", doc |-> << >>, stderr |-> <<Line("notfound", id)>>]

ShowResolveFirstMatch(id) ==
    IF Len(id) < FullIdLength
    THEN LET matches == SelectSeq(getDocuments, LAMBDA d : StartsWith(d.id, id))
         IN  IF Len(matches) >= 1 THEN Found(matches[1]) ELSE NotFound(id)
    ELSE IF getDocument(id) # << >> THEN Found(getDocument(id)[1]) ELSE NotFound(id)

ShowResolvePrefixAlways(id) ==
    LET matches == SelectSeq(getDocuments, LAMBDA d : StartsWith(d.id, id))
    IN  IF Len(matches) = 1 THEN Found(matches[1])
        ELSE IF Len(matches) > 1 THEN Ambiguous(id, matches)
        ELSE NotFound(id)

\* showMeeting, lines 105-126
ShowResolve(id) ==
    IF Len(id) < FullIdLength
    THEN LET matches == SelectSeq(getDocuments, LAMBDA d : StartsWith(d.id, id))
         IN  IF Len(matches) = 1 THEN Found(matches[1])
             ELSE IF Len(matches) > 1 THEN Ambiguous(id, matches)
             ELSE NotFound(id)
    ELSE IF getDocument(id) # << >> THEN Found(getDocument(id)[1]) ELSE NotFound(id)

ExportResolveFirstMatch(id) ==
    IF Len(id) < FullIdLength
    THEN LET matches == SelectSeq(getDocuments, LAMBDA d : StartsWith(d.id, id))
         IN  IF Len(matches) >= 1 THEN Found(matches[1]) ELSE NotFound(id)
    ELSE IF getDocument(id) # << >> THEN Found(getDocument(id)[1]) ELSE NotFound(id)

\* exportMeeting looking the identifier up by exact match only
ExportResolveExactOnly(id) ==
    IF getDocument(id) # << >> THEN Found(getDocument(id)[1]) ELSE NotFound(id)

\* exportMeeting, lines 162-183
ExportResolve(id) ==
    IF Len(id) < FullIdLength
    THEN LET matches == SelectSeq(getDocuments, LAMBDA d : StartsWith(d.id, id))
         IN  IF Len(matches) = 1 THEN Found(matches[1])
             ELSE IF Len(matches) > 1 THEN Ambiguous(id, matches)
             ELSE NotFound(id)
    ELSE IF getDocument(id) # << >> THEN Found(getDocument(id)[1]) ELSE NotFound(id)

(***************************************************************************)
(* listMeetings and searchMeetings (part_002, lines 65-98 and 137-155).    *)
(***************************************************************************)
MaxListAttendees == 3
MaxSearchResults == 20

RECURSIVE BeforeAt(_)
\* email.split("@")[0]
BeforeAt(s) ==
    IF Len(s) = 0 \/ s[1] = "@" THEN << >> ELSE <<s[1]>> \o BeforeAt(Tail(s))

\* doc.people?.attendees?.slice(0, 3).map(...).filter(Boolean).join(", ") || ""
ListAttendees(d) ==
    LET first == Slice(d.attendees, 0, MaxListAttendees) IN
    Join(SelectSeq([i \in DOMAIN first |->
                       OrElse(first[i].fullName, BeforeAt(first[i].email))],
                   LAMBDA n : n # << >>), <<",", " ">>)

\* the date and the time of day to the minute (toLocaleDateString,
\* toLocaleTimeString with hour and minute)
ToLocaleMinute(t) == IF IsNaN(t) THEN NaN ELSE Num(t[1] \div (60 * 1000))

\* the lines listMeetings prints for one document
ListEntry(d) ==
    <<Line("item", d.title),
      LineAt("item_id", ToLocaleMinute(DateGetTime(d.created_at)),
             Slice(d.id, 0, ListIdLength))>>
    \o (IF ListAttendees(d) # << >> THEN <<Line("with", ListAttendees(d))>> ELSE << >>)
    \o <<Line("blank", << >>)>>

RECURSIVE Flatten(_)
Flatten(ss) == IF Len(ss) = 0 THEN << >> ELSE ss[1] \o Flatten(Tail(ss))

\* what listMeetings prints for the documents getRecentDocuments returned
ListOutput(docs, days) ==
    IF Len(docs) = 0 THEN <<LineAt("no_meetings", Num(days), << >>)>>
    ELSE <<LineAt("recent", Num(days), << >>), Line("blank", << >>)>>
         \o Flatten([i \in DOMAIN docs |-> ListEntry(docs[i])])
         \o <<Line("blank", << >>), LineAt("total", Num(Len(docs)), << >>)>>

\* the date (toLocaleDateString)
ToLocaleDateString(t) == IF IsNaN(t) THEN NaN ELSE Num(t[1] \div MsPerDay)

SearchEntry(d) ==
    <<Line("item", d.title),
      LineAt("item_id", ToLocaleDateString(DateGetTime(d.created_at)),
             Slice(d.id, 0, ListIdLength)),
      Line("blank", << >>)>>

\* searchMeetings printing nothing when nothing was found
SearchOutputSilent(results, query) ==
    IF Len(results) = 0 THEN << >>
    ELSE LET shown == Slice(results, 0, MaxSearchResults) IN
         <<Line("results", query), Line("blank", << >>)>>
         \o Flatten([i \in DOMAIN shown |-> SearchEntry(shown[i])])
         \o <<Line("blank", << >>), LineAt("found", Num(Len(results)), << >>)>>

\* what searchMeetings prints for the documents searchDocuments returned
SearchOutput(results, query) ==
    IF Len(results) = 0 THEN <<Line("no_match", query)>>
    ELSE LET shown == Slice(results, 0, MaxSearchResults) IN
         <<Line("results", query), Line("blank", << >>)>>
         \o Flatten([i \in DOMAIN shown |-> SearchEntry(shown[i])])
         \o <<Line("blank", << >>), LineAt("found", Num(Len(results)), << >>)>>

(***************************************************************************)
(* exportMeeting (part_002, lines 185-229).                                *)
(***************************************************************************)
RECURSIVE EscapeQuotes(_)
\* doc.title.replace(/"/g, '\\"')
EscapeQuotes(s) ==
    IF Len(s) = 0 THEN << >>
    ELSE (IF s[1] = "\"" THEN <<"\\", "\"">> ELSE <<s[1]>>) \o EscapeQuotes(Tail(s))

Quoted(s) == <<"\"">> \o s \o <<"\"">>

NoNotesAvailable == <<"N", "o", " ", "n", "o", "t", "e", "s", " ", "a", "v", "a", "i", "l", "a", "b", "l", "e", ".">>

\* the markdown of lines 197-217, given the lines formatTranscript returned
ExportContent(d, transcriptLines) ==
    <<Line("rule", << >>),
      Line("fm_id", d.id),
      Line("fm_title", Quoted(EscapeQuotes(d.title))),
      LineAt("fm_date", d.created_at, << >>),
      Line("fm_participants",
           Join([i \in DOMAIN AttendeeNames(d) |-> Quoted(AttendeeNames(d)[i])],
                <<",", " ">>)),
      Line("rule", << >>),
      Line("blank", << >>),
      Line("h1", d.title),
      Line("blank", << >>),
      LineAt("date", ToLocaleString(DateGetTime(d.created_at)), << >>),
      Line("participants", OrElse(Join(AttendeeNames(d), <<",", " ">>), Unknown)),
      Line("blank", << >>)>>
    \o (IF d.summary # << >>
        THEN <<Line("h2", <<"S", "u", "m", "m", "a", "r", "y">>), Line("blank", << >>),
               Line("body", d.summary), Line("blank", << >>)>>
        ELSE <<Line("blank", << >>)>>)
    \o <<Line("h2", <<"N", "o", "t", "e", "s">>),
         Line("blank", << >>),
         Line("body", OrElse(d.notes_markdown, NoNotesAvailable)),
         Line("blank", << >>),
         Line("h2", <<"T", "r", "a", "n", "s", "c", "r", "i", "p", "t">>),
         Line("blank", << >>)>>
    \o transcriptLines

\* new Date(doc.created_at).toISOString().split("T")[0]: YYYY-MM-DD of the
\* instant (days are counted from 2026-01-01); NaN when toISOString throws
\* RangeError for an Invalid Date
ToISODate(t) ==
    IF IsNaN(t) THEN NaN
    ELSE LET day == (t[1] \div MsPerDay) + 1 IN
         <<"2", "0", "2", "6", "-", "0", "1", "-",
           Digits[(day \div 10) + 1], Digits[(day % 10) + 1]>>

SlugChars ==
    {"a", "b", "c", "d", "e", "f", "g", "h", "i", "j", "k", "l", "m", "n", "o",
     "p", "q", "r", "s", "t", "u", "v", "w", "x", "y", "z",
     "0", "1", "2", "3", "4", "5", "6", "7", "8", "9"}

RECURSIVE ReplaceRuns(_, _)
\* .replace(/[^a-z0-9]+/g, "-"); inRun: the previous character was replaced
ReplaceRuns(s, inRun) ==
    IF Len(s) = 0 THEN << >>
    ELSE IF s[1] \in SlugChars THEN <<s[1]>> \o ReplaceRuns(Tail(s), FALSE)
    ELSE IF inRun THEN ReplaceRuns(Tail(s), TRUE)
    ELSE <<"-">> \o ReplaceRuns(Tail(s), TRUE)

MaxSlugLength == 50

\* the slug without .slice(0, 50)
SafeTitleWhole(title) == ReplaceRuns(ToLowerCase(title), FALSE)

\* doc.title.toLowerCase().replace(/[^a-z0-9]+/g, "-").slice(0, 50)
SafeTitle(title) == Slice(ReplaceRuns(ToLowerCase(title), FALSE), 0, MaxSlugLength)

\* `${dateStr}-${safeTitle}.md`
ExportFilename(d) ==
    ToISODate(DateGetTime(d.created_at)) \o <<"-">> \o SafeTitle(d.title)
    \o <<".", "m", "d">>

\* path.normalize, for a path that may start with "./"
Normalize(path) ==
    IF StartsWith(path, <<".", "/">>) THEN Slice(path, 2, Len(path)) ELSE path

\* path.join(outputDir, filename)
PathJoin(dir, name) == Normalize(dir) \o <<"/">> \o name

ExportFilepathDir(outputDir, d) == Normalize(outputDir)

\* const filepath = join(outputDir, filename)
ExportFilepath(outputDir, d) == PathJoin(outputDir, ExportFilename(d))

\* existsSync(path): false also when the argument is no string
ExistsSync(v) ==
    /\ ~v.bool
    /\ Normalize(v.str) \in DOMAIN fs \cup dirs

\* a regular file stands where a directory is needed (ENOTDIR)
UnderFile(path) ==
    \E f \in DOMAIN fs : path = f \/ StartsWith(path, f \o <<"/">>)

(***************************************************************************)
(* JSON values, as JSON.parse yields them.  Every value is a record with   *)
(* its type in `t`; an object lists its own keys in enumeration order.     *)
(* The values of the documents mapping are Document records and the        *)
(* segments of a transcript array are TranscriptSegment records.           *)
(***************************************************************************)
JUndefined == [t |-> "undefined"]

\* in place of a value: the expression threw TypeError
JThrow == [t |-> "throw"]
JNull == [t |-> "null"]
JNumber(n) == [t |-> "number", n |-> n]
JString(s) == [t |-> "string", s |-> s]
JArray(items) == [t |-> "array", items |-> items]
JObject(keys, values) == [t |-> "object", keys |-> keys, values |-> values]

\* where the text of a file abbreviates what the snapshot holds: the whole
\* state container, its documents mapping or its transcripts mapping
JSnapshot(part) == [t |-> "snapshot", part |-> part]

\* ToBoolean: undefined, null, 0 and "" are falsy
JTruthy(v) ==
    CASE v.t \in {"undefined", "null"} -> FALSE
      [] v.t = "number" -> v.n # 0
      [] v.t = "string" -> v.s # << >>
      [] OTHER -> TRUE

\* the array index a property key denotes, or -1
IndexOfKey(key) ==
    IF /\ Len(key) > 0
       /\ \A i \in DOMAIN key : IsDigit(key[i])
       /\ (Len(key) = 1 \/ key[1] # "0")
    THEN DigitsValue(key, 0)
    ELSE -1

KeyLength == <<"l", "e", "n", "g", "t", "h">>

\* v[key]: the own properties of an object, the elements and the length
\* of an array or a string; TypeError when v is undefined or null
JGet(v, key) ==
    CASE v.t \in {"undefined", "null", "throw"} -> JThrow
      [] v.t = "object" ->
            IF \E i \in DOMAIN v.keys : v.keys[i] = key
            THEN v.values[CHOOSE i \in DOMAIN v.keys : v.keys[i] = key]
            ELSE JUndefined
      [] v.t = "array" ->
            IF key = KeyLength THEN JNumber(Len(v.items))
            ELSE IF IndexOfKey(key) + 1 \in DOMAIN v.items
            THEN v.items[IndexOfKey(key) + 1]
            ELSE JUndefined
      [] v.t = "string" ->
            IF key = KeyLength THEN JNumber(Len(v.s))
            ELSE IF IndexOfKey(key) + 1 \in DOMAIN v.s
            THEN JString(<<v.s[IndexOfKey(key) + 1]>>)
            ELSE JUndefined
      [] OTHER -> JUndefined

\* v?.[key]
JOptGet(v, key) == IF v.t \in {"undefined", "null"} THEN JUndefined ELSE JGet(v, key)

\* Object.values(v), for v neither undefined nor null
ObjectValues(v) ==
    CASE v.t = "object" -> v.values
      [] v.t = "array" -> v.items
      [] v.t = "string" -> [i \in DOMAIN v.s |-> JString(<<v.s[i]>>)]
      [] OTHER -> << >>

KeyCache == <<"c", "a", "c", "h", "e">>
KeyState == <<"s", "t", "a", "t", "e">>
KeyDocuments == <<"d", "o", "c", "u", "m", "e", "n", "t", "s">>
KeyTranscripts == <<"t", "r", "a", "n", "s", "c", "r", "i", "p", "t", "s">>

RECURSIVE Stringify(_)
\* the JSON text of a value; a string literal escapes the quotes inside it
Stringify(v) ==
    CASE v.t = "null" -> <<"n", "u", "l", "l">>
      [] v.t = "number" -> <<Digits[v.n + 1]>>
      [] v.t = "string" -> Quoted(EscapeQuotes(v.s))
      [] v.t = "array" ->
            <<"[">> \o Join([i \in DOMAIN v.items |-> Stringify(v.items[i])], <<",">>)
            \o <<"]">>
      [] v.t = "object" ->
            <<"{">> \o Join([i \in DOMAIN v.keys |->
                                Quoted(v.keys[i]) \o <<":">> \o Stringify(v.values[i])],
                            <<",">>)
            \o <<"}">>
      [] v.t = "snapshot" ->
            IF v.part = "container" THEN <<".", ".", ".">>
            ELSE <<"{", ".", ".", ".", "}">>

\* the documents mapping of the snapshot: every document under its id
DocumentsMapping ==
    JObject([i \in DOMAIN documents |-> documents[i].id], documents)

\* the transcripts mapping of the snapshot: one array per document that
\* has a transcript
TranscriptsMapping ==
    LET ids == SelectSeq([i \in DOMAIN documents |-> documents[i].id],
                         LAMBDA id : id \in DOMAIN transcripts)
    IN  JObject(ids, [i \in DOMAIN ids |-> JArray(transcripts[ids[i]])])

\* { "state": { "documents": docs, "transcripts": trs } }, a field that is
\* undefined being left out
StateContainer(docs, trs) ==
    LET present == SelectSeq(<<<<KeyDocuments, docs>>, <<KeyTranscripts, trs>>>>,
                             LAMBDA p : p[2] # JUndefined)
    IN  JObject(<<KeyState>>,
                <<JObject([i \in DOMAIN present |-> present[i][1]],
                          [i \in DOMAIN present |-> present[i][2]])>>)

\* the state container that holds the snapshot
SnapshotContainer == StateContainer(DocumentsMapping, TranscriptsMapping)

RECURSIVE Resolve(_)
\* a parsed value with what the text abbreviates filled in
Resolve(v) ==
    CASE v.t = "snapshot" ->
            (CASE v.part = "container" -> SnapshotContainer
               [] v.part = "documents" -> DocumentsMapping
               [] OTHER -> TranscriptsMapping)
      [] v.t = "object" ->
            [v EXCEPT !.values = [i \in DOMAIN v.values |-> Resolve(v.values[i])]]
      [] OTHER -> v

\* what may stand in place of the documents or the transcripts mapping:
\* nothing, an empty mapping, or a value that is no mapping
EmptyObject == JObject(<< >>, << >>)

MalformedFields ==
    {JNull, JString(<< >>), JString(<<"a", "b">>), JNumber(0), JNumber(5),
     JArray(<< >>), JArray(<<JNumber(1)>>)}

FieldValues == MalformedFields \cup {JUndefined, EmptyObject}

\* the state containers a cache file may hold
StateContainers ==
    {JSnapshot("container"), EmptyObject, JNull, JNumber(5)}
    \cup {JObject(<<KeyState>>, <<v>>) : v \in {JNull, JString(<<"a", "b">>), JNumber(5)}}
    \cup {StateContainer(f, f) : f \in FieldValues}
    \cup {StateContainer(JSnapshot("documents"), f) : f \in FieldValues \cup {JSnapshot("transcripts")}}
    \cup {StateContainer(f, JSnapshot("transcripts")) : f \in FieldValues}

\* { "cache": c }
CacheObject(c) == JObject(<<KeyCache>>, <<c>>)

\* the values a well-formed cache file may denote: a state container with
\* nothing around it, one in the cache field, one JSON-encoded as a string
\* in the cache field, and a cache field with a string that is no JSON
JsonValues ==
    StateContainers
    \cup {CacheObject(c) : c \in StateContainers}
    \cup {CacheObject(JString(Stringify(c))) : c \in StateContainers}
    \cup {CacheObject(JString(<<"{">>)), CacheObject(JString(<< >>))}

ParseTable == {[text |-> Stringify(v), value |-> v] : v \in JsonValues}

\* JSON.parse(text): << >> when it throws SyntaxError, <<value>> otherwise
JSONParse(text) ==
    LET hits == {e \in ParseTable : e.text = text}
    IN  IF hits = {} THEN << >> ELSE <<Resolve((CHOOSE e \in hits : TRUE).value)>>

(***************************************************************************)
(* The constructor of GranolaCache (cache.ts, lines 69-87) and the         *)
(* accessors on the container it stored in this.data (lines 89-100).       *)
(***************************************************************************)
Thrown(kind, text) == [ok |-> FALSE, error |-> Line(kind, text), data |-> JUndefined]
Constructed(data) == [ok |-> TRUE, error |-> Line("none", << >>), data |-> data]

\* readFileSync(path, "utf-8") of a file that holds one text
ReadFileSync(path) == fs[path][1].text

\* lines 82-86 with the second decoding left out
DecodeCacheSingle(outer, cache) ==
    IF cache.t = "throw" THEN Thrown("error_type", << >>)
    ELSE Constructed(IF JTruthy(cache) THEN cache ELSE outer)

\* lines 82-86, for the value `outer` and its field `cache` (outer.cache
\* throws TypeError when outer is null): a string is parsed again, anything
\* else is used as it is, or `outer` in its place when it is falsy
DecodeCache(outer, cache) ==
    IF cache.t = "throw" THEN Thrown("error_type", << >>)
    ELSE IF cache.t = "string"
    THEN IF JSONParse(cache.s) = << >> THEN Thrown("error_parse", << >>)
         ELSE Constructed(JSONParse(cache.s)[1])
    ELSE Constructed(IF JTruthy(cache) THEN cache ELSE outer)

\* lines 79-86, for the result of JSON.parse(raw)
DecodeOuter(outer) ==
    IF outer = << >> THEN Thrown("error_parse", << >>)
    ELSE DecodeCache(outer[1], JGet(outer[1], KeyCache))

\* new GranolaCache(customPath): the container stored in this.data, or the
\* error thrown (existsSync is true of a directory too, which readFileSync
\* then refuses)
GranolaCache(customPath) ==
    IF OrElse(customPath, CACHE_PATH) \notin DOMAIN fs \cup dirs
    THEN Thrown("error_not_found", OrElse(customPath, CACHE_PATH))
    ELSE IF OrElse(customPath, CACHE_PATH) \in dirs
    THEN Thrown("error_eisdir", OrElse(customPath, CACHE_PATH))
    ELSE DecodeOuter(JSONParse(ReadFileSync(OrElse(customPath, CACHE_PATH))))

\* this.data?.state?.[field]
StateField(data, field) == JOptGet(JOptGet(data, KeyState), field)

\* getDocuments (lines 89-92) on the container in this.data
GetDocumentsOf(data) ==
    IF ~JTruthy(StateField(data, KeyDocuments)) THEN << >>
    ELSE ObjectValues(StateField(data, KeyDocuments))

\* getDocument looking in this.data.documents, where no mapping is
GetDocumentOfData(data, id) == JOptGet(JOptGet(data, KeyDocuments), id)

\* getDocument (lines 94-96) on the container in this.data
GetDocumentOf(data, id) == JOptGet(StateField(data, KeyDocuments), id)

\* getTranscript without the fallback to an empty array
GetTranscriptOfUnguarded(data, documentId) ==
    JOptGet(StateField(data, KeyTranscripts), documentId)

\* getTranscript (lines 98-100) on the container in this.data
GetTranscriptOf(data, documentId) ==
    LET segments == JOptGet(StateField(data, KeyTranscripts), documentId)
    IN  IF JTruthy(segments) THEN segments ELSE JArray(<< >>)

(***************************************************************************)
(* Spec: one invocation of the command-line tool, main() of part_002.      *)
(***************************************************************************)
\* an identifier of full length that starts with the given characters
MkId(prefix) == prefix \o [i \in 1..(FullIdLength - Len(prefix)) |-> "0"]

IdA == MkId(<<"a", "a", "a", "a", "a", "a", "a", "a", "1">>)
IdB == MkId(<<"a", "a", "a", "a", "a", "a", "a", "a", "2">>)
IdC == MkId(<<"a", "b">>)
IdLong == IdC \o <<"x">>
IdShort == <<"b", "c">>
IdMissing == MkId(<<"z", "z">>)

\* the documents a snapshot is drawn from: two whose identifiers share
\* their first eight characters, one whose identifier is a proper prefix
\* of another's, one with a short identifier; two created at the same
\* instant, one with a created_at that does not parse, one created more
\* than a week ago, one created after the current instant
CliDocuments ==
    {Document(IdA, <<"A", "b", ":", " ", "R">>, <<Now0 - MsPerDay>>,
              <<"#", " ", "b">>, <<"b">>, <<"r">>,
              <<Person(<<"R", "a">>, <<"a", "@", "b">>), Person(<< >>, <<"b", "@", "a">>)>>),
     Document(IdB, <<"b">>, <<Now0 - MsPerDay>>, << >>, << >>, << >>, <<NoPerson>>),
     Document(IdC, <<"A", "b">>, << >>, << >>, << >>, << >>, << >>),
     Document(IdLong, <<"r">>, <<Now0 - 8 * MsPerDay>>, << >>, << >>, << >>, << >>),
     Document(IdShort, <<"b", "\"", "c">>, <<Now0 + 1>>, << >>, <<"a", "b">>, << >>, << >>)}

\* the transcripts on file: one out of order, one with two segments that
\* start at the same instant; the other documents have none
CliTranscripts ==
    (IdA :> <<TranscriptSegment(<<Now0>>, <<"b">>),
              TranscriptSegment(<<Now0 - 1000>>, <<"a">>)>>)
    @@ (IdB :> <<TranscriptSegment(<<Now0>>, <<"b">>),
                 TranscriptSegment(<<Now0>>, <<"a">>)>>)

CmdList == <<"l", "i", "s", "t">>
CmdShow == <<"s", "h", "o", "w">>
CmdSearch == <<"s", "e", "a", "r", "c", "h">>
CmdExport == <<"e", "x", "p", "o", "r", "t">>
KeyHelp == <<"h", "e", "l", "p">>
KeyTranscript == <<"t", "r", "a", "n", "s", "c", "r", "i", "p", "t">>

\* the identifiers given on the command line: prefixes of one, of two and
\* of no identifier, the eight characters list prints, and full identifiers
IdArguments ==
    {<<"a">>, <<"a", "b">>, <<"z", "z">>,
     <<"a", "a", "a", "a", "a", "a", "a", "a", "1">>,
     IdA, IdC, IdLong, IdMissing}
    \cup {Slice(d.id, 0, ListIdLength) : d \in CliDocuments}

OutputDirArguments == {<<"o", "u", "t">>, CACHE_DIR, CACHE_PATH}

Arguments ==
    {<< >>,
     <<DashDash \o KeyHelp>>,
     <<CmdList>>,
     <<CmdList, DashDash \o KeyHelp>>,
     <<CmdList, <<"-", "-", "d", "a", "y", "s">>, <<"1">>>>,
     <<CmdList, <<"-", "-", "d", "a", "y", "s">>, <<"9", "d">>>>,
     <<CmdList, <<"-", "-", "d", "a", "y", "s">>>>,
     <<CmdList, <<"-", "-", "d", "a", "y", "s">>, <<"0">>>>,
     <<CmdList, <<"-", "-", "d", "a", "y", "s">>, <<" ", "-", "3">>>>,
     <<CmdList, <<"-", "-", "d", "a", "y", "s">>, <<"a", "b">>>>,
     <<<<"b", "o", "g", "u", "s">>>>,
     <<CmdShow>>, <<CmdSearch>>, <<CmdExport>>,
     <<CmdSearch, <<"a", "b">>>>,
     <<CmdSearch, <<"R", "a">>, <<"b">>>>,
     <<CmdSearch, <<"z", "z">>>>,
     <<DashDash \o KeyTranscript, CmdShow, IdA>>,
     <<DashDash \o KeyHelp, CmdList>>,
     <<CmdShow, DashDash \o KeyHelp>>,
     <<CmdShow, DashDash \o KeyTranscript, IdA>>,
     <<<<"b", "o", "g", "u", "s">>, IdA>>}
    \cup {<<CmdShow, id>> : id \in IdArguments}
    \cup {<<CmdShow, id, DashDash \o KeyTranscript>> : id \in IdArguments}
    \cup {<<CmdExport, id>> : id \in IdArguments}
    \cup {<<CmdExport, id, <<"-", "-", "o", "u", "t", "p", "u", "t">>>> : id \in IdArguments}
    \cup {<<CmdExport, id, <<"-", "-", "o", "u", "t", "p", "u", "t">>, dir>> :
            id \in IdArguments, dir \in OutputDirArguments}

\* the cache files an invocation may find: the snapshot's container as a
\* JSON-encoded string in the cache field, as an object in the cache field
\* and with nothing around it; an empty container; a text cut short, a
\* cache string cut short, and the text null
CacheObjectJson == <<Line("json", Stringify(CacheObject(JSnapshot("container"))))>>
CacheBareJson == <<Line("json", Stringify(JSnapshot("container")))>>
CacheEmptyJson == <<Line("json", Stringify(CacheObject(JString(Stringify(EmptyObject)))))>>
MalformedNestedJson == <<Line("json", Stringify(CacheObject(JString(<<"{">>))))>>
NullJson == <<Line("json", Stringify(JNull))>>

CliCacheFiles ==
    {CacheJson, CacheObjectJson, CacheBareJson, CacheEmptyJson,
     MalformedJson, MalformedNestedJson, NullJson}

Init ==
    /\ fs \in {(CACHE_PATH :> file) : file \in CliCacheFiles} \cup {<< >>}
    /\ dirs = {CACHE_DIR}
    /\ \E snapshot \in SeqsUpTo(CliDocuments, MaxDocs) :
          /\ Injective(snapshot)
          /\ documents = snapshot
          /\ transcripts = [id \in {d.id : d \in Range(snapshot)} \cap DOMAIN CliTranscripts
                              |-> CliTranscripts[id]]
          /\ IF GranolaCache(<< >>).ok
             THEN GetDocumentsOf(GranolaCache(<< >>).data) = snapshot
             ELSE snapshot = << >>
    /\ now = Now0
    /\ argv \in Arguments
    /\ pc = "start"
    /\ parsed = << >>
    /\ doc = << >>
    /\ listed = << >>
    /\ stdout = << >>
    /\ stderr = << >>
    /\ exitCode = << >>
    /\ calls = << >>

\* process.exit(code), or main returning (code 0)
Exit(code) ==
    /\ exitCode' = <<code>>
    /\ pc' = "exited"

\* an exception nothing catches: node prints it and exits with code 1
Uncaught(name) ==
    /\ stderr' = Append(stderr, Line("uncaught", name))
    /\ Exit(1)

\* segments.sort works in place: the cache's array for this id is left sorted
TranscriptsAfter(id, after) ==
    IF id \in DOMAIN transcripts THEN [transcripts EXCEPT ![id] = after] ELSE transcripts

\* line 233
MainParse ==
    /\ pc = "start"
    /\ parsed' = parseArgs(argv)
    /\ pc' = "help"
    /\ UNCHANGED <<documents, transcripts, now, argv, doc, listed, stdout, stderr,
                   exitCode, fs, dirs, calls>>

\* main() without the check of lines 235-238
MainHelpSkipped ==
    /\ pc = "help"
    /\ pc' = "load"
    /\ UNCHANGED <<documents, transcripts, now, argv, parsed, doc, listed, stdout,
                   stderr, exitCode, fs, dirs, calls>>

\* lines 235-238
MainHelp ==
    /\ pc = "help"
    /\ IF parsed.command = << >> \/ Truthy(Flag(parsed.flags, KeyHelp))
       THEN /\ stdout' = Append(stdout, Line("usage", << >>))
            /\ Exit(0)
       ELSE /\ pc' = "load"
            /\ UNCHANGED <<stdout, exitCode>>
    /\ UNCHANGED <<documents, transcripts, now, argv, parsed, doc, listed, stderr,
                   fs, dirs, calls>>

\* the catch block without process.exit(1)
MainLoadCacheContinue ==
    /\ pc = "load"
    /\ stderr' = IF GranolaCache(<< >>).ok THEN stderr
                 ELSE Append(stderr, GranolaCache(<< >>).error)
    /\ pc' = "dispatch"
    /\ UNCHANGED <<documents, transcripts, now, argv, parsed, doc, listed, stdout,
                   exitCode, fs, dirs, calls>>

\* lines 240-246 and the constructor of GranolaCache
MainLoadCache ==
    /\ pc = "load"
    /\ IF ~GranolaCache(<< >>).ok
       THEN /\ stderr' = Append(stderr, GranolaCache(<< >>).error)
            /\ Exit(1)
       ELSE /\ pc' = "dispatch"
            /\ UNCHANGED <<stderr, exitCode>>
    /\ UNCHANGED <<documents, transcripts, now, argv, parsed, doc, listed, stdout,
                   fs, dirs, calls>>

\* case "list", with listMeetings
MainList ==
    /\ pc = "dispatch"
    /\ parsed.command = CmdList
    /\ \E docs \in getRecentDocuments(DaysOf(parsed.flags)) :
          /\ listed' = docs
          /\ stdout' = stdout \o ListOutput(docs, DaysOf(parsed.flags))
    /\ Exit(0)
    /\ UNCHANGED <<documents, transcripts, now, argv, parsed, doc, stderr, fs,
                   dirs, calls>>

\* case "show", with showMeeting
MainShow ==
    /\ pc = "dispatch"
    /\ parsed.command = CmdShow
    /\ IF Positional0(parsed.positional) = << >>
       THEN /\ stderr' = Append(stderr, Line("usage_show", << >>))
            /\ Exit(1)
            /\ UNCHANGED <<doc, stdout, transcripts>>
       ELSE LET r == ShowResolve(parsed.positional[1]) IN
            IF r.kind # "found"
            THEN /\ stderr' = stderr \o r.stderr
                 /\ Exit(1)
                 /\ UNCHANGED <<doc, stdout, transcripts>>
            ELSE /\ doc' = r.doc
                 /\ IF Truthy(Flag(parsed.flags, KeyTranscript))
                    THEN \E f \in formatTranscript(getTranscript(r.doc[1].id)) :
                            /\ stdout' = stdout \o formatDocument(r.doc[1], TRUE)
                                  \o <<Line("blank", << >>), Line("h2", KeyTranscript),
                                       Line("blank", << >>)>>
                                  \o f.ret
                            /\ transcripts' = TranscriptsAfter(r.doc[1].id, f.after)
                    ELSE /\ stdout' = stdout \o formatDocument(r.doc[1], TRUE)
                         /\ UNCHANGED transcripts
                 /\ Exit(0)
                 /\ UNCHANGED stderr
    /\ UNCHANGED <<documents, now, argv, parsed, listed, fs, dirs, calls>>

\* case "search" without the check of positional[0]
MainSearchUnchecked ==
    /\ pc = "dispatch"
    /\ parsed.command = CmdSearch
    /\ LET query == Join(parsed.positional, <<" ">>) IN
       /\ listed' = searchDocuments(query)
       /\ stdout' = stdout \o SearchOutput(searchDocuments(query), query)
       /\ Exit(0)
    /\ UNCHANGED <<documents, transcripts, now, argv, parsed, doc, stderr, fs, dirs,
                   calls>>

\* case "search", with searchMeetings
MainSearch ==
    /\ pc = "dispatch"
    /\ parsed.command = CmdSearch
    /\ IF Positional0(parsed.positional) = << >>
       THEN /\ stderr' = Append(stderr, Line("usage_search", << >>))
            /\ Exit(1)
            /\ UNCHANGED <<listed, stdout>>
       ELSE LET query == Join(parsed.positional, <<" ">>) IN
            /\ listed' = searchDocuments(query)
            /\ stdout' = stdout \o SearchOutput(searchDocuments(query), query)
            /\ Exit(0)
            /\ UNCHANGED stderr
    /\ UNCHANGED <<documents, transcripts, now, argv, parsed, doc, fs, dirs, calls>>

\* case "export", and exportMeeting up to line 183
MainExport ==
    /\ pc = "dispatch"
    /\ parsed.command = CmdExport
    /\ IF Positional0(parsed.positional) = << >>
       THEN /\ stderr' = Append(stderr, Line("usage_export", << >>))
            /\ Exit(1)
            /\ UNCHANGED doc
       ELSE LET r == ExportResolve(parsed.positional[1]) IN
            IF r.kind # "found"
            THEN /\ stderr' = stderr \o r.stderr
                 /\ Exit(1)
                 /\ UNCHANGED doc
            ELSE /\ doc' = r.doc
                 /\ pc' = "export_mkdir"
                 /\ UNCHANGED <<stderr, exitCode>>
    /\ UNCHANGED <<documents, transcripts, now, argv, parsed, listed, stdout, fs,
                   dirs, calls>>

\* exportMeeting, lines 185-188: mkdirSync throws when outputDir is no
\* string or lies under a regular file
ExportMkdir ==
    /\ pc = "export_mkdir"
    /\ LET out == OutputDirOf(parsed.flags) IN
       IF ExistsSync(out)
       THEN /\ pc' = "export_write"
            /\ UNCHANGED <<dirs, stderr, exitCode>>
       ELSE IF out.bool
       THEN Uncaught(<<"T", "y", "p", "e", "E", "r", "r", "o", "r">>) /\ UNCHANGED dirs
       ELSE IF UnderFile(Normalize(out.str))
       THEN Uncaught(<<"E", "N", "O", "T", "D", "I", "R">>) /\ UNCHANGED dirs
       ELSE /\ dirs' = dirs \cup {Normalize(out.str)}
            /\ pc' = "export_write"
            /\ UNCHANGED <<stderr, exitCode>>
    /\ UNCHANGED <<documents, transcripts, now, argv, parsed, doc, listed, stdout,
                   fs, calls>>

\* exportMeeting writing the content a second time, next to the file
ExportWriteWithCopy ==
    /\ pc = "export_write"
    /\ LET d == doc[1]
           out == OutputDirOf(parsed.flags).str
       IN  \E f \in formatTranscript(getTranscript(d.id)) :
              /\ transcripts' = TranscriptsAfter(d.id, f.after)
              /\ IF IsNaN(DateGetTime(d.created_at))
                 THEN /\ Uncaught(<<"R", "a", "n", "g", "e", "E", "r", "r", "o", "r">>)
                      /\ UNCHANGED <<fs, stdout>>
                 ELSE IF UnderFile(Normalize(out))
                 THEN /\ Uncaught(<<"E", "N", "O", "T", "D", "I", "R">>)
                      /\ UNCHANGED <<fs, stdout>>
                 ELSE /\ fs' = (ExportFilepath(out, d) :> ExportContent(d, f.ret))
                               @@ (ExportFilepath(out, d) \o <<"~">> :> ExportContent(d, f.ret))
                               @@ fs
                      /\ stdout' = Append(stdout, Line("exported", ExportFilepath(out, d)))
                      /\ Exit(0)
                      /\ UNCHANGED stderr
    /\ UNCHANGED <<documents, now, argv, parsed, doc, listed, dirs, calls>>

\* exportMeeting, lines 190-229: formatTranscript sorts the cache's array;
\* toISOString throws RangeError for an Invalid Date; writeFileSync throws
\* when outputDir is a regular file
ExportWrite ==
    /\ pc = "export_write"
    /\ LET d == doc[1]
           out == OutputDirOf(parsed.flags).str
       IN  \E f \in formatTranscript(getTranscript(d.id)) :
              /\ transcripts' = TranscriptsAfter(d.id, f.after)
              /\ IF IsNaN(DateGetTime(d.created_at))
                 THEN /\ Uncaught(<<"R", "a", "n", "g", "e", "E", "r", "r", "o", "r">>)
                      /\ UNCHANGED <<fs, stdout>>
                 ELSE IF UnderFile(Normalize(out))
                 THEN /\ Uncaught(<<"E", "N", "O", "T", "D", "I", "R">>)
                      /\ UNCHANGED <<fs, stdout>>
                 ELSE /\ fs' = (ExportFilepath(out, d) :> ExportContent(d, f.ret)) @@ fs
                      /\ stdout' = Append(stdout, Line("exported", ExportFilepath(out, d)))
                      /\ Exit(0)
                      /\ UNCHANGED stderr
    /\ UNCHANGED <<documents, now, argv, parsed, doc, listed, dirs, calls>>

\* the default case with process.exit(0)
MainUnknownExitZero ==
    /\ pc = "dispatch"
    /\ parsed.command \notin {CmdList, CmdShow, CmdSearch, CmdExport}
    /\ stderr' = Append(stderr, Line("unknown", parsed.command))
    /\ stdout' = Append(stdout, Line("usage", << >>))
    /\ Exit(0)
    /\ UNCHANGED <<documents, transcripts, now, argv, parsed, doc, listed, fs,
                   dirs, calls>>

\* the default case
MainUnknown ==
    /\ pc = "dispatch"
    /\ parsed.command \notin {CmdList, CmdShow, CmdSearch, CmdExport}
    /\ stderr' = Append(stderr, Line("unknown", parsed.command))
    /\ stdout' = Append(stdout, Line("usage", << >>))
    /\ Exit(1)
    /\ UNCHANGED <<documents, transcripts, now, argv, parsed, doc, listed, fs,
                   dirs, calls>>

Next ==
    \/ MainParse
    \/ MainHelp
    \/ MainLoadCache
    \/ MainList
    \/ MainShow
    \/ MainSearch
    \/ MainExport
    \/ ExportMkdir
    \/ ExportWrite
    \/ MainUnknown

Spec == Init /\ [][Next]_vars

(***************************************************************************)
(* SpecRecent: getRecentDocuments called on a loaded snapshot.             *)
(***************************************************************************)
\* created_at values: just before, at and after the 7-day cutoff, a day
\* ago, in the future, and a string Date cannot parse
RecentStamps ==
    {<<Now0 - 7 * MsPerDay - 1>>, <<Now0 - 7 * MsPerDay>>, <<Now0 - MsPerDay>>,
     <<Now0 + 1>>, << >>}

RecentDays == {0, 1, 7}

InitRecent ==
    /\ \E stamps \in SeqsUpTo(RecentStamps, MaxRecentDocs) :
          documents = [i \in DOMAIN stamps |->
              Document(DocId(i), <<"m">>, stamps[i], << >>, << >>, << >>, << >>)]
    /\ transcripts = << >>
    /\ now = Now0
    /\ calls = << >>
    /\ CliIdle

CallGetRecentDocuments ==
    /\ pc = "lib"
    /\ Len(calls) < MaxCalls
    /\ \E days \in RecentDays : \E r \in getRecentDocuments(days) :
          calls' = Append(calls, [op |-> "getRecentDocuments", arg |-> days, ret |-> r])
    /\ UNCHANGED <<documents, transcripts, now>>
    /\ CliUnchanged

NextRecent == CallGetRecentDocuments

SpecRecent == InitRecent /\ [][NextRecent]_vars

(***************************************************************************)
(* SpecSearch: searchDocuments called on a loaded snapshot.                *)
(***************************************************************************)
SearchBody(title, notes_plain, attendees) ==
    [title |-> title, notes_plain |-> notes_plain, attendees |-> attendees]

SearchBodies ==
    {SearchBody(<<"A", "b">>, << >>, << >>),
     SearchBody(<< >>, <<"b", "A", "r">>, << >>),
     SearchBody(<< >>, << >>, <<Person(<<"R", "a">>, <<"a", "b">>)>>),
     SearchBody(<< >>, << >>, <<Person(<< >>, <<"a", "B">>), Person(<<"R">>, << >>)>>)}
    \cup {SearchBody(<< >>, << >>, [i \in 1..n |-> NoPerson]) : n \in 0..MaxAttendees}

SearchQueries ==
    {<< >>, <<" ">>, <<"a", "b">>, <<"A", "B">>, <<"R", "a">>, <<"b", " ", "R">>}

InitSearch ==
    /\ \E bodies \in SeqsUpTo(SearchBodies, MaxSearchDocs) :
          /\ Injective(bodies)
          /\ documents = [i \in DOMAIN bodies |->
                Document(DocId(i), bodies[i].title, <<Now0>>, << >>,
                         bodies[i].notes_plain, << >>, bodies[i].attendees)]
    /\ transcripts = << >>
    /\ now = Now0
    /\ calls = << >>
    /\ CliIdle

CallSearchDocuments ==
    /\ pc = "lib"
    /\ Len(calls) < MaxCalls
    /\ \E query \in SearchQueries :
          calls' = Append(calls, [op |-> "searchDocuments", arg |-> query,
                                  ret |-> searchDocuments(query)])
    /\ UNCHANGED <<documents, transcripts, now>>
    /\ CliUnchanged

NextSearch == CallSearchDocuments

SpecSearch == InitSearch /\ [][NextSearch]_vars

(***************************************************************************)
(* SpecFormat: formatTranscript called on a segment array and on its       *)
(* reverse.                                                                *)
(***************************************************************************)
\* two segments that start at the same instant, an earlier and a later one, and one
\* whose start_timestamp Date cannot parse
SegmentPool ==
    {TranscriptSegment(<<Now0>>, <<"a">>),
     TranscriptSegment(<<Now0>>, <<"b">>),
     TranscriptSegment(<<Now0 - 1000>>, <<"c">>),
     TranscriptSegment(<<Now0 + 1000>>, <<"d">>),
     TranscriptSegment(<< >>, <<"e">>)}

InitFormat ==
    /\ documents = <<Document(DocId(1), <<"m">>, <<Now0>>, << >>, << >>, << >>, << >>)>>
    /\ \E segments \in SeqsUpTo(SegmentPool, MaxSegs) :
          /\ Injective(segments)
          /\ transcripts = (DocId(1) :> segments)
    /\ now = Now0
    /\ calls = << >>
    /\ CliIdle

CallFormatTranscript ==
    /\ pc = "lib"
    /\ Len(calls) < MaxCalls
    /\ \E arg \in {getTranscript(DocId(1)), Reverse(getTranscript(DocId(1)))} :
       \E r \in formatTranscript(arg) :
          calls' = Append(calls, [op |-> "formatTranscript", arg |-> arg,
                                  ret |-> r.ret, after |-> r.after])
    /\ UNCHANGED <<documents, transcripts, now>>
    /\ CliUnchanged

NextFormat == CallFormatTranscript

SpecFormat == InitFormat /\ [][NextFormat]_vars

(***************************************************************************)
(* SpecLoad: a GranolaCache constructed from a cache file, then its        *)
(* accessors called.                                                       *)
(***************************************************************************)
MaxLoadDocs == 2

\* every text of the parse table and one cut short
LoadFiles == {<<Line("json", Stringify(v))>> : v \in JsonValues} \cup {MalformedJson}

\* customPath: none, a path where nothing is, a directory
LoadPaths == {<< >>, <<"x">>, CACHE_DIR}

\* the identifiers looked up: of the documents, of no document, and two
\* keys a string or an array has
LoadIds == {DocId(i) : i \in 1..(MaxLoadDocs + 1)} \cup {<<"0">>, KeyLength}

\* a snapshot of n documents, all but the last with a transcript
InitLoad ==
    /\ \E n \in 0..MaxLoadDocs :
          /\ documents = [i \in 1..n |->
                Document(DocId(i), <<"m">>, <<Now0>>, << >>, << >>, << >>, << >>)]
          /\ transcripts = [id \in {DocId(i) : i \in 1..(n - 1)} |->
                <<TranscriptSegment(<<Now0>>, <<"a">>)>>]
    /\ fs \in {(CACHE_PATH :> file) : file \in LoadFiles} \cup {<< >>}
    /\ dirs = {CACHE_DIR}
    /\ now = Now0
    /\ argv = << >>
    /\ pc = "lib"
    /\ parsed = << >>
    /\ doc = << >>
    /\ listed = << >>
    /\ stdout = << >>
    /\ stderr = << >>
    /\ exitCode = << >>
    /\ calls = << >>

\* new GranolaCache(customPath)
CallGranolaCache ==
    /\ pc = "lib"
    /\ calls = << >>
    /\ \E customPath \in LoadPaths :
          calls' = <<[op |-> "GranolaCache", arg |-> customPath,
                      ret |-> GranolaCache(customPath)]>>
    /\ UNCHANGED <<documents, transcripts, now>>
    /\ CliUnchanged

\* the container in this.data of the instance constructed
ThisData == calls[1].ret.data

\* an instance has been constructed and another call may follow
Constructed1 ==
    /\ pc = "lib"
    /\ calls # << >>
    /\ calls[1].ret.ok
    /\ Len(calls) < MaxCalls

CallGetDocuments ==
    /\ Constructed1
    /\ calls' = Append(calls, [op |-> "getDocuments", arg |-> << >>,
                               ret |-> JArray(GetDocumentsOf(ThisData))])
    /\ UNCHANGED <<documents, transcripts, now>>
    /\ CliUnchanged

CallGetDocument ==
    /\ Constructed1
    /\ \E id \in LoadIds :
          calls' = Append(calls, [op |-> "getDocument", arg |-> id,
                                  ret |-> GetDocumentOf(ThisData, id)])
    /\ UNCHANGED <<documents, transcripts, now>>
    /\ CliUnchanged

CallGetTranscript ==
    /\ Constructed1
    /\ \E documentId \in LoadIds :
          calls' = Append(calls, [op |-> "getTranscript", arg |-> documentId,
                                  ret |-> GetTranscriptOf(ThisData, documentId)])
    /\ UNCHANGED <<documents, transcripts, now>>
    /\ CliUnchanged

NextLoad ==
    \/ CallGranolaCache
    \/ CallGetDocuments
    \/ CallGetDocument
    \/ CallGetTranscript

SpecLoad == InitLoad /\ [][NextLoad]_vars

(***************************************************************************)
(* SpecArgs: parseArgs called on an argument vector.                       *)
(***************************************************************************)
MaxArgs == 3          \* tokens in an argument vector given to parseArgs

\* the tokens of an argument vector: a command name, an identifier, two
\* flags, a token with a single dash and the empty string
ArgTokens ==
    {CmdShow, <<"a">>, DashDash \o KeyTranscript, <<"-", "-", "o">>, <<"-", "x">>, << >>}

InitArgs ==
    /\ documents = << >>
    /\ transcripts = << >>
    /\ now = Now0
    /\ calls = << >>
    /\ argv \in SeqsUpTo(ArgTokens, MaxArgs)
    /\ pc = "lib"
    /\ parsed = << >>
    /\ doc = << >>
    /\ listed = << >>
    /\ stdout = << >>
    /\ stderr = << >>
    /\ exitCode = << >>
    /\ fs = (CACHE_PATH :> CacheJson)
    /\ dirs = {CACHE_DIR}

CallParseArgs ==
    /\ pc = "lib"
    /\ calls = << >>
    /\ calls' = <<[op |-> "parseArgs", arg |-> argv, ret |-> parseArgs(argv)]>>
    /\ UNCHANGED <<documents, transcripts, now>>
    /\ CliUnchanged

NextArgs == CallParseArgs

SpecArgs == InitArgs /\ [][NextArgs]_vars

(***************************************************************************)
(* SpecSlug: the filename exportMeeting builds for a document (part_002,   *)
(* lines 219-224).                                                         *)
(***************************************************************************)
MaxTitleTail == 3     \* characters of a title after its padding

\* the characters of a title: a lowercase and an uppercase letter, a digit,
\* a blank and the separator itself
TitleChars == {"a", "B", "1", " ", "-"}

\* titles start with nothing or with as many letters as bring the
\* slug to one character below its limit
TitlePaddings == {<< >>, [i \in 1..(MaxSlugLength - 1) |-> "x"]}

InitSlug ==
    /\ \E pad \in TitlePaddings, tail \in SeqsUpTo(TitleChars, MaxTitleTail),
          created \in {Now0, Now0 - 8 * MsPerDay} :
          documents = <<Document(DocId(1), pad \o tail, <<created>>,
                                 << >>, << >>, << >>, << >>)>>
    /\ transcripts = << >>
    /\ now = Now0
    /\ calls = << >>
    /\ CliIdle

CallExportFilename ==
    /\ pc = "lib"
    /\ calls = << >>
    /\ calls' = <<[op |-> "filename", arg |-> documents[1],
                   ret |-> ExportFilename(documents[1])]>>
    /\ UNCHANGED <<documents, transcripts, now>>
    /\ CliUnchanged

NextSlug == CallExportFilename

SpecSlug == InitSlug /\ [][NextSlug]_vars

(***************************************************************************)
(* Claims about the command line (Spec).                                   *)
(***************************************************************************)
\* p is an initial part of s
IsPrefix(p, s) == Len(p) <= Len(s) /\ \A i \in 1..Len(p) : s[i] = p[i]

IsSuffix(p, s) ==
    Len(p) <= Len(s) /\ \A i \in 1..Len(p) : s[Len(s) - Len(p) + i] = p[i]

\* the cache file is there and parses
CacheLoads == GranolaCache(<< >>).ok

\* main() got past the help check and the cache load with this command
\* and a positional argument, and showMeeting / exportMeeting has resolved
\* the identifier
Resolved(command) ==
    /\ pc \in {"export_mkdir", "export_write", "exited"}
    /\ parsed.command = command
    /\ ~Truthy(Flag(parsed.flags, KeyHelp))
    /\ CacheLoads
    /\ Len(parsed.positional) > 0

\* the documents whose identifier starts with id
StartingWith(id) == {d \in Range(documents) : IsPrefix(id, d.id)}

\* the path join(outputDir, '<date>-<slug>.md') of the document being exported
IsExportPath(path) ==
    /\ pc = "export_write"
    /\ \E name \in {SubSeq(path, k, Len(path)) : k \in 1..Len(path)} :
          /\ path = Normalize(OutputDirOf(parsed.flags).str) \o <<"/">> \o name
          /\ IsPrefix(ToISODate(DateGetTime(doc[1].created_at)) \o <<"-">>, name)
          /\ IsSuffix(<<".", "m", "d">>, name)
          /\ \A i \in 1..(Len(name) - 3) : name[i] \in SlugChars \cup {"-"}

\* C1: no step of any command changes the cache file, and the only path a
\* step writes is join(outputDir, '<date>-<slug>.md').
C1_CacheFileNeverWritten ==
    [][/\ DOMAIN fs \subseteq DOMAIN fs'
       /\ CACHE_PATH \in DOMAIN fs' => CACHE_PATH \in DOMAIN fs
       /\ CACHE_PATH \in DOMAIN fs => fs'[CACHE_PATH] = fs[CACHE_PATH]
       /\ CACHE_PATH \notin dirs'
       /\ \A path \in DOMAIN fs' :
             (path \notin DOMAIN fs \/ fs'[path] # fs[path]) => IsExportPath(path)
      ]_vars

\* an export into the directory of the cache file has written its file
\* beside the cache file
C1_Witness ==
    /\ pc = "exited"
    /\ exitCode = <<0>>
    /\ CacheLoads
    /\ \E path \in DOMAIN fs : path # CACHE_PATH /\ IsPrefix(CACHE_DIR \o <<"/">>, path)

\* C2: in show and export, an identifier shorter than 36 characters that
\* exactly one document's identifier starts with selects that document;
\* one that several identifiers start with makes the command fail with
\* exit code 1, listing all candidates, choosing no document, printing
\* nothing to standard output and writing no file.
C2_PrefixResolution ==
    \A command \in {CmdShow, CmdExport} :
        (Resolved(command) /\ Len(parsed.positional[1]) < 36) =>
            LET id == parsed.positional[1] IN
            /\ Cardinality(StartingWith(id)) = 1 =>
                  /\ doc # << >>
                  /\ doc[1] \in StartingWith(id)
                  /\ (command = CmdShow =>
                        /\ exitCode = <<0>>
                        /\ stdout[1] = Line("h1", doc[1].title)
                        /\ stdout[3] = Line("id", doc[1].id))
            /\ Cardinality(StartingWith(id)) > 1 =>
                  /\ exitCode = <<1>>
                  /\ doc = << >>
                  /\ stdout = << >>
                  /\ DOMAIN fs = {CACHE_PATH}
                  /\ dirs = {CACHE_DIR}
                  /\ Len(stderr) = 1 + Cardinality(StartingWith(id))
                  /\ stderr[1] = Line("multiple", id)
                  /\ \A d \in StartingWith(id) : \E i \in 2..Len(stderr) :
                        /\ stderr[i].kind = "candidate"
                        /\ IsPrefix(SubSeq(d.id, 1, 12), stderr[i].text)
                        /\ IsSuffix(d.title, stderr[i].text)

\* an export given a prefix that two identifiers start with, and an
\* output directory, has exited
C2_Witness ==
    /\ Resolved(CmdExport)
    /\ pc = "exited"
    /\ Len(parsed.positional[1]) < 36
    /\ Cardinality(StartingWith(parsed.positional[1])) = 2
    /\ <<"o", "u", "t", "p", "u", "t">> \in DOMAIN parsed.flags

\* C3: in show and export, an identifier of 36 characters or more selects
\* a document iff it is exactly the identifier of one; otherwise the
\* command reports it as not found and exits with code 1, also when a
\* longer identifier starts with it.
C3_FullLengthExactOnly ==
    \A command \in {CmdShow, CmdExport} :
        (Resolved(command) /\ Len(parsed.positional[1]) >= 36) =>
            LET id == parsed.positional[1] IN
            IF \E d \in Range(documents) : d.id = id
            THEN doc # << >> /\ doc[1].id = id
            ELSE /\ doc = << >>
                 /\ exitCode = <<1>>
                 /\ stderr = <<Line("notfound", id)>>
                 /\ stdout = << >>

\* show was given 36 characters that are no document's identifier but
\* start a longer one, and has exited
C3_Witness ==
    /\ Resolved(CmdShow)
    /\ pc = "exited"
    /\ Len(parsed.positional[1]) = 36
    /\ \A d \in Range(documents) : d.id # parsed.positional[1]
    /\ \E d \in Range(documents) : IsPrefix(parsed.positional[1], d.id)

CreatedAt(d) == d.created_at[1]

Parses(d) == d.created_at # << >>

\* C5, as stated: getRecentDocuments(days) returns exactly the documents
\* whose creation instant t satisfies now - days days <= t <= now.
C5_WindowClosedAtNow ==
    \A c \in Range(calls) :
        Range(c.ret) = {d \in Range(documents) :
            /\ Parses(d)
            /\ now - c.arg * MsPerDay <= CreatedAt(d)
            /\ CreatedAt(d) <= now}

\* C5, amended: getRecentDocuments(days) returns, each once, exactly the
\* documents whose creation instant t satisfies now - days days <= t; the
\* lower bound is inclusive and there is no upper bound.
C5_WindowLowerBoundOnly ==
    \A c \in Range(calls) :
        /\ Range(c.ret) = {d \in Range(documents) :
              Parses(d) /\ now - c.arg * MsPerDay <= CreatedAt(d)}
        /\ Injective(c.ret)

\* a call that keeps a document created exactly at the cutoff and one
\* created after the current instant, and drops an older one
C5_Witness ==
    \E c \in Range(calls) :
        /\ \E d \in Range(c.ret) : CreatedAt(d) = now - c.arg * MsPerDay
        /\ \E d \in Range(c.ret) : CreatedAt(d) > now
        /\ \E d \in Range(documents) : Parses(d) /\ d \notin Range(c.ret)

\* C6, as stated: the result is sorted strictly descending by creation
\* timestamp, also when documents share a creation timestamp.
C6_StrictlyDescending ==
    \A c \in Range(calls) : \A i \in 1..(Len(c.ret) - 1) :
        CreatedAt(c.ret[i]) > CreatedAt(c.ret[i + 1])

IndexIn(s, x) == CHOOSE i \in DOMAIN s : s[i] = x

\* C6, amended: the result is sorted descending by creation timestamp,
\* adjacent entries may share a timestamp, and documents that share one
\* stay in the enumeration order of the documents mapping.
C6_DescendingTiesInOrder ==
    \A c \in Range(calls) : \A i \in 1..(Len(c.ret) - 1) :
        \/ CreatedAt(c.ret[i]) > CreatedAt(c.ret[i + 1])
        \/ /\ CreatedAt(c.ret[i]) = CreatedAt(c.ret[i + 1])
           /\ IndexIn(documents, c.ret[i]) < IndexIn(documents, c.ret[i + 1])

\* a result that had to be reordered and holds two documents with one timestamp
C6_Witness ==
    \E c \in Range(calls) :
        /\ \E i \in 1..(Len(c.ret) - 1) :
              CreatedAt(c.ret[i]) = CreatedAt(c.ret[i + 1])
        /\ \E i \in 1..(Len(c.ret) - 1) :
              CreatedAt(c.ret[i]) > CreatedAt(c.ret[i + 1])
        /\ c.ret # SelectSeq(documents, LAMBDA d : d \in Range(c.ret))

(***************************************************************************)
(* Claims about searchDocuments (SpecSearch).                              *)
(***************************************************************************)
\* q occurs in s at some offset
IsSubstring(q, s) ==
    \E off \in 0..(Len(s) - Len(q)) : \A k \in 1..Len(q) : s[off + k] = q[k]

\* the identity of an attendee: the resolved full name if present, else
\* the email (nothing when the attendee has neither)
Identity(a) == IF a.fullName # << >> THEN a.fullName ELSE a.email

\* C7: searchDocuments(query) returns a document iff the lowercased query
\* is a substring of the lowercased title, of the lowercased plain-text
\* notes, or of the space-joined lowercased attendee identities; the
\* returned documents keep the order in which getDocuments enumerates them.
C7_SearchMatchesInOrder ==
    \A c \in Range(calls) :
        LET q == ToLowerCase(c.arg)
            Hit(d) ==
                \/ IsSubstring(q, ToLowerCase(d.title))
                \/ IsSubstring(q, ToLowerCase(d.notes_plain))
                \/ IsSubstring(q, Join([i \in DOMAIN d.attendees |->
                        ToLowerCase(Identity(d.attendees[i]))], <<" ">>))
        IN  c.ret = SelectSeq(documents, Hit)

\* a query with capitals that returns two documents, one found by its
\* title and one by the joined identities of two attendees
C7_Witness ==
    \E c \in Range(calls) :
        /\ c.arg # ToLowerCase(c.arg)
        /\ Len(c.ret) = 2
        /\ \E d \in Range(c.ret) : Len(d.attendees) = 2
        /\ \E d \in Range(c.ret) : d.title # << >>

\* a document with no title, no plain-text notes and no attendee that has
\* a full name or an email
NothingToMatch(d) ==
    /\ d.title = << >>
    /\ d.notes_plain = << >>
    /\ \A i \in DOMAIN d.attendees :
          d.attendees[i].fullName = << >> /\ d.attendees[i].email = << >>

\* C8: a document whose title and notes are empty and whose attendees all
\* lack a full name and an email is not returned for any non-empty query.
C8_EmptyFieldsNeverMatch ==
    \A c \in Range(calls) :
        c.arg # << >> => \A d \in Range(c.ret) : ~NothingToMatch(d)

\* two characters that are one letter, in either case
SameLetter(x, y) ==
    \/ x = y
    \/ \E m \in DOMAIN UpperChars :
          {x, y} = {UpperChars[m], LowerChars[m]}

DifferOnlyInCase(s, t) ==
    /\ Len(s) = Len(t)
    /\ \A k \in DOMAIN s : SameLetter(s[k], t[k])

\* C9: two queries that differ only in letter case return identical results.
C9_CaseInsensitive ==
    \A c1, c2 \in Range(calls) :
        DifferOnlyInCase(c1.arg, c2.arg) => c1.ret = c2.ret

\* two different spellings of one query, both finding a document, while
\* another document is not found
C9_Witness ==
    \E c1, c2 \in Range(calls) :
        /\ c1.arg # c2.arg
        /\ DifferOnlyInCase(c1.arg, c2.arg)
        /\ c1.ret # << >>
        /\ Len(c1.ret) < Len(documents)

(***************************************************************************)
(* Claims about formatTranscript (SpecFormat).                             *)
(***************************************************************************)
\* C10, as stated: for every non-empty segment sequence S, also one in
\* which segments share a start timestamp, formatTranscript(S) and
\* formatTranscript(reverse(S)) produce identical output.
C10_ReverseSameOutput ==
    \A c1, c2 \in Range(calls) :
        (c1.arg # << >> /\ c2.arg = Reverse(c1.arg)) => c1.ret = c2.ret

\* every start timestamp parses and no two segments start at one instant
DistinctStarts(segments) ==
    /\ \A i \in DOMAIN segments : segments[i].start_timestamp # << >>
    /\ \A i, j \in DOMAIN segments :
          i # j => segments[i].start_timestamp # segments[j].start_timestamp

\* C10, amended: for every non-empty segment sequence S whose start
\* timestamps all parse and are pairwise distinct instants, the lines are
\* in ascending start-timestamp order and formatTranscript(S) and
\* formatTranscript(reverse(S)) produce identical output.
C10_ReverseSameOutputDistinctStarts ==
    \A c1, c2 \in Range(calls) :
        (c1.arg # << >> /\ c2.arg = Reverse(c1.arg) /\ DistinctStarts(c1.arg))
        => /\ c1.ret = c2.ret
           /\ \A i \in 1..(Len(c1.after) - 1) :
                 c1.after[i].start_timestamp[1] < c1.after[i + 1].start_timestamp[1]
           /\ \A i \in DOMAIN c1.ret : c1.ret[i].text = c1.after[i].text

\* segments with distinct starts, formatted in descending order (which the
\* sort has to reorder) and in the reverse of it
C10_Witness ==
    \E i, j \in DOMAIN calls :
        /\ i < j
        /\ Len(calls[i].arg) >= 2
        /\ DistinctStarts(calls[i].arg)
        /\ calls[j].arg = Reverse(calls[i].arg)
        /\ calls[i].after # calls[i].arg
        /\ calls[i].ret = calls[j].ret

\* C11: formatTranscript is pure: when it returns, the caller's sequence
\* holds the same segments in the same order as before the call.
C11_FormatTranscriptPure ==
    \A c \in Range(calls) : c.op = "formatTranscript" => c.after = c.arg

(***************************************************************************)
(* Claims about the snapshot held during a command (Spec).                 *)
(***************************************************************************)
\* C12: no step of a command changes the documents or a transcript segment
\* sequence of the snapshot, the order of the segments included.
C12_SnapshotImmutable ==
    [][documents' = documents /\ transcripts' = transcripts]_vars

LoadedDefault(c) ==
    /\ c.op = "GranolaCache"
    /\ c.arg = << >>
    /\ CACHE_PATH \in DOMAIN fs

\* the texts of the three forms of a cache file, each with the state
\* container v it holds: v JSON-encoded as a string in the cache field, v
\* in the cache field, and v with nothing around it
StringForms ==
    {[text |-> Stringify(CacheObject(JString(Stringify(v)))), v |-> v] :
        v \in StateContainers}
ObjectForms == {[text |-> Stringify(CacheObject(v)), v |-> v] : v \in StateContainers}
BareForms ==
    {[text |-> Stringify(v), v |-> v] :
        v \in {w \in StateContainers : w.t \in {"object", "snapshot"}}}

\* C16, as stated: a cache field that is a JSON-encoded string is parsed a
\* second time and the result is the container; otherwise the container is
\* the top-level value's cache field itself (undefined when the top-level
\* value has no cache field).
C16_DoubleDecoding ==
    \A k \in DOMAIN calls : LET c == calls[k] IN
        LoadedDefault(c) =>
            /\ \A e \in StringForms :
                  ReadFileSync(CACHE_PATH) = e.text
                  => c.ret.ok /\ c.ret.data = Resolve(e.v)
            /\ \A e \in ObjectForms :
                  ReadFileSync(CACHE_PATH) = e.text
                  => c.ret.ok /\ c.ret.data = Resolve(e.v)
            /\ \A e \in BareForms :
                  ReadFileSync(CACHE_PATH) = e.text
                  => c.ret.ok /\ c.ret.data = JUndefined

\* C16, amended: a cache field that is a JSON-encoded string is parsed a
\* second time and the result is the container; a cache field that is an
\* object (or any other truthy value) is the container itself; when the
\* cache field is absent or falsy the top-level value is the container.
C16_DoubleDecodingOrTopLevel ==
    \A k \in DOMAIN calls : LET c == calls[k] IN
        LoadedDefault(c) =>
            /\ \A e \in StringForms :
                  ReadFileSync(CACHE_PATH) = e.text
                  => c.ret.ok /\ c.ret.data = Resolve(e.v)
            /\ \A e \in ObjectForms :
                  ReadFileSync(CACHE_PATH) = e.text
                  => /\ c.ret.ok
                     /\ c.ret.data = IF JTruthy(e.v) THEN Resolve(e.v)
                                     ELSE CacheObject(e.v)
            /\ \A e \in BareForms :
                  ReadFileSync(CACHE_PATH) = e.text
                  => c.ret.ok /\ c.ret.data = Resolve(e.v)

\* a snapshot of two documents was loaded from a file that holds its
\* container as a JSON-encoded string, and getDocuments returned them
C16_Witness ==
    /\ Len(calls) = 2
    /\ LoadedDefault(calls[1])
    /\ fs[CACHE_PATH] = CacheJson
    /\ Len(documents) = 2
    /\ calls[1].ret.ok
    /\ calls[1].ret.data = SnapshotContainer
    /\ calls[2].op = "getDocuments"
    /\ calls[2].ret = JArray(documents)

\* C17: when state, state.documents or state.transcripts is absent or is
\* no mapping (null, a string, a number, an array), getDocuments returns
\* the empty list and getTranscript the empty sequence, without raising.
C17_MalformedFieldsDefaultEmpty ==
    \A k \in DOMAIN calls : LET c == calls[k] IN
        /\ (c.op = "getDocuments" /\ StateField(ThisData, KeyDocuments).t # "object")
              => c.ret = JArray(<< >>)
        /\ (c.op = "getTranscript" /\ StateField(ThisData, KeyTranscripts).t # "object")
              => c.ret = JArray(<< >>)

(***************************************************************************)
(* Claims about the dispatcher's errors and exit codes (Spec).             *)
(***************************************************************************)
\* the arguments are parsed and ask for help: no command, or --help
HelpAsked ==
    /\ pc \notin {"start"}
    /\ (parsed.command = << >> \/ Truthy(Flag(parsed.flags, KeyHelp)))

\* the arguments are parsed and name a command without --help, so that
\* main() constructs the GranolaCache
CommandGiven ==
    /\ pc \notin {"start"}
    /\ parsed.command # << >>
    /\ ~Truthy(Flag(parsed.flags, KeyHelp))

\* the process has exited with code 1 after one message on the error
\* stream and nothing else: nothing printed, no document chosen, nothing
\* listed, no file or directory made
FailedWith(line) ==
    /\ pc = "exited"
    /\ exitCode = <<1>>
    /\ stderr = <<line>>
    /\ stdout = << >>
    /\ doc = << >>
    /\ listed = << >>
    /\ DOMAIN fs \subseteq {CACHE_PATH}
    /\ dirs = {CACHE_DIR}

\* C15: once main() has constructed the GranolaCache, a cache file absent
\* at the resolved path has made the command fail with a 'not found' error
\* naming that path, and a text that JSON.parse rejects at the outer or at
\* the nested layer with a parse error: one message on the error stream,
\* exit code 1, no command body run.
C15_LoaderFailureModes ==
    (CommandGiven /\ pc \notin {"help", "load"}) =>
        /\ CACHE_PATH \notin DOMAIN fs
              => FailedWith(Line("error_not_found", CACHE_PATH))
        /\ (CACHE_PATH \in DOMAIN fs
              /\ fs[CACHE_PATH] \in {MalformedJson, MalformedNestedJson})
              => FailedWith(Line("error_parse", << >>))

\* an export of a document has failed on a cache string that is cut short
C15_Witness ==
    /\ pc = "exited"
    /\ parsed.command = CmdExport
    /\ Len(parsed.positional) > 0
    /\ CACHE_PATH \in DOMAIN fs
    /\ fs[CACHE_PATH] = MalformedNestedJson
    /\ FailedWith(Line("error_parse", << >>))

KnownCommands == {CmdList, CmdShow, CmdSearch, CmdExport}

\* C18, as stated: no command, or --help, prints the usage text and exits
\* with code 0; a command other than list, show, search and export prints
\* the usage text and exits with code 1.
C18_DispatchExitCodes ==
    pc = "exited" =>
        /\ HelpAsked => stdout = <<Line("usage", << >>)>> /\ exitCode = <<0>>
        /\ (CommandGiven /\ parsed.command \notin KnownCommands)
              => /\ Line("usage", << >>) \in Range(stdout)
                 /\ exitCode = <<1>>

\* C18, amended: no command, or --help, prints the usage text and exits
\* with code 0, whatever the cache file; a command other than list, show,
\* search and export exits with code 1, after the usage text when the
\* cache loads and after the load error alone when it does not.
C18_DispatchExitCodesAfterLoad ==
    pc = "exited" =>
        /\ HelpAsked
              => /\ stdout = <<Line("usage", << >>)>>
                 /\ stderr = << >>
                 /\ exitCode = <<0>>
        /\ (CommandGiven /\ parsed.command \notin KnownCommands)
              => /\ exitCode = <<1>>
                 /\ CacheLoads
                       => /\ stdout = <<Line("usage", << >>)>>
                          /\ stderr = <<Line("unknown", parsed.command)>>
                 /\ ~CacheLoads
                       => /\ stdout = << >>
                          /\ Len(stderr) = 1
                          /\ stderr[1].kind \in {"error_not_found", "error_parse", "error_type"}

\* an unknown command met a cache that loads and documents in it
C18_Witness ==
    /\ pc = "exited"
    /\ CommandGiven
    /\ parsed.command \notin KnownCommands
    /\ CacheLoads
    /\ documents # << >>
    /\ exitCode = <<1>>

\* the usage line of a command
UsageLine(command) ==
    CASE command = CmdShow -> Line("usage_show", << >>)
      [] command = CmdSearch -> Line("usage_search", << >>)
      [] command = CmdExport -> Line("usage_export", << >>)

\* show, search or export was given no positional argument
ArgumentMissing ==
    /\ pc \notin {"start"}
    /\ parsed.command \in {CmdShow, CmdSearch, CmdExport}
    /\ parsed.positional = << >>

\* C19, as stated: whenever show, search or export is invoked without its
\* positional argument, the command's usage line is printed to the error
\* stream and the process exits with code 1.
C19_UsageError ==
    (pc = "exited" /\ ArgumentMissing) =>
        /\ stderr = <<UsageLine(parsed.command)>>
        /\ exitCode = <<1>>

\* C19, amended: when show, search or export is invoked without its
\* positional argument and without --help, and the cache loads, the
\* command's usage line is printed to the error stream, nothing else is
\* printed and the process exits with code 1; with --help the usage text is
\* printed and the exit code is 0; when the cache does not load the load
\* error is printed in place of the usage line, and the exit code is 1.
C19_UsageErrorAfterLoad ==
    (pc = "exited" /\ ArgumentMissing) =>
        /\ (CommandGiven /\ CacheLoads)
              => FailedWith(UsageLine(parsed.command))
        /\ (CommandGiven /\ ~CacheLoads)
              => /\ exitCode = <<1>>
                 /\ Len(stderr) = 1
                 /\ stderr[1] # UsageLine(parsed.command)
        /\ HelpAsked => stdout = <<Line("usage", << >>)>> /\ exitCode = <<0>>

\* show was given --transcript before the identifier, which parseArgs made
\* the flag's value: no positional argument is left, and the cache loads
C19_Witness ==
    /\ pc = "exited"
    /\ ArgumentMissing
    /\ CommandGiven
    /\ CacheLoads
    /\ parsed.command = CmdShow
    /\ Truthy(Flag(parsed.flags, KeyTranscript))
    /\ documents # << >>
    /\ FailedWith(Line("usage_show", << >>))

\* the document has the query (lowercased) in its title, its plain-text
\* notes or its attendees' identities
Hits(query, d) ==
    \/ IsSubstring(ToLowerCase(query), ToLowerCase(d.title))
    \/ IsSubstring(ToLowerCase(query), ToLowerCase(d.notes_plain))
    \/ IsSubstring(ToLowerCase(query),
                   Join([i \in DOMAIN d.attendees |->
                            ToLowerCase(Identity(d.attendees[i]))], <<" ">>))

\* the document was created in the window of `days` days before now
InWindow(d, days) == Parses(d) /\ CreatedAt(d) >= now - days * MsPerDay

\* no document is found under the identifier, exactly or as a prefix
MatchesNothing(id) ==
    IF Len(id) < FullIdLength THEN StartingWith(id) = {}
    ELSE \A d \in Range(documents) : d.id # id

\* C20: with a cache that loads, a search whose query matches no document
\* and a list whose window holds no meeting print an explanatory message
\* to standard output and exit with code 0; a show or an export whose
\* identifier matches no document exits with code 1.
C20_FindingNothing ==
    (pc = "exited" /\ CommandGiven /\ CacheLoads) =>
        /\ (/\ parsed.command = CmdSearch
            /\ parsed.positional # << >>
            /\ \A d \in Range(documents) : ~Hits(Join(parsed.positional, <<" ">>), d))
              => /\ stdout = <<Line("no_match", Join(parsed.positional, <<" ">>))>>
                 /\ stderr = << >>
                 /\ exitCode = <<0>>
        /\ (/\ parsed.command = CmdList
            /\ \A d \in Range(documents) : ~InWindow(d, DaysOf(parsed.flags)))
              => /\ stdout = <<LineAt("no_meetings", Num(DaysOf(parsed.flags)), << >>)>>
                 /\ stderr = << >>
                 /\ exitCode = <<0>>
        /\ (/\ parsed.command \in {CmdShow, CmdExport}
            /\ parsed.positional # << >>
            /\ MatchesNothing(parsed.positional[1]))
              => /\ exitCode = <<1>>
                 /\ stdout = << >>
                 /\ stderr = <<Line("notfound", parsed.positional[1])>>

\* a search found nothing among documents that are there
C20_Witness ==
    /\ pc = "exited"
    /\ CommandGiven
    /\ CacheLoads
    /\ parsed.command = CmdSearch
    /\ parsed.positional # << >>
    /\ documents # << >>
    /\ \A d \in Range(documents) : ~Hits(Join(parsed.positional, <<" ">>), d)
    /\ exitCode = <<0>>

(***************************************************************************)
(* Claims about parseArgs (SpecArgs).                                      *)
(***************************************************************************)
\* the tokens of args that do not start with the flag marker '-', in order
NonFlagTokens(args) == SelectSeq(args, LAMBDA a : ~IsPrefix(<<"-">>, a))

\* C21, as stated: parseArgs sets the command name to the first token of
\* the argument vector that does not start with '-' (to the empty string
\* when there is none), also when a flag precedes the command.
C21_CommandIsFirstNonFlag ==
    \A k \in DOMAIN calls :
        calls[k].op = "parseArgs" =>
            calls[k].ret.command =
                (IF NonFlagTokens(calls[k].arg) = << >> THEN << >>
                 ELSE NonFlagTokens(calls[k].arg)[1])

\* the token at position i starts with '--'
IsFlagAt(args, i) == IsPrefix(<<"-", "-">>, args[i])

\* the token at position i follows a '--' token and does not start with '-'
FollowsFlag(args, i) ==
    /\ i > 1
    /\ IsFlagAt(args, i - 1)
    /\ ~IsPrefix(<<"-">>, args[i])

\* the tokens of args that can become the command: not empty, not starting
\* with '-', and not right after a '--' token (which takes them as its value)
CommandTokens(args) ==
    SelectSeq([i \in DOMAIN args |->
                  IF args[i] # << >> /\ ~IsPrefix(<<"-">>, args[i]) /\ ~FollowsFlag(args, i)
                  THEN args[i] ELSE << >>],
              LAMBDA a : a # << >>)

\* C21, amended: parseArgs sets the command name to the first non-empty
\* token that does not start with '-' and does not follow a '--' token (to
\* the empty string when there is none): a flag placed before the command
\* name, such as --transcript, takes the token after it as its value.
C21_CommandIsFirstFreeToken ==
    \A k \in DOMAIN calls :
        calls[k].op = "parseArgs" =>
            calls[k].ret.command =
                (IF CommandTokens(calls[k].arg) = << >> THEN << >>
                 ELSE CommandTokens(calls[k].arg)[1])

\* --transcript before the command took the command name, and the
\* identifier became the command
C21_Witness ==
    /\ calls # << >>
    /\ calls[1].op = "parseArgs"
    /\ calls[1].arg = <<DashDash \o KeyTranscript, CmdShow, <<"a">>>>
    /\ calls[1].ret.command = <<"a">>
    /\ calls[1].ret.positional = << >>

\* what parseArgs returns for args when the tokens at the positions in
\* taken are the values of the flags before them: each flag maps to its
\* value, or to true (the last occurrence of a name decides); the command
\* is the first token that is neither a flag nor taken nor empty; the
\* positional arguments are the tokens after it that do not start with '-'
\* and are not taken
ParseGiven(args, taken) ==
    LET free == {i \in DOMAIN args : ~IsPrefix(<<"-">>, args[i]) /\ i \notin taken}
        named == {i \in free : args[i] # << >>}
        c == IF named = {} THEN 0 ELSE CHOOSE i \in named : \A j \in named : i <= j
        flagsAt == {i \in DOMAIN args : IsFlagAt(args, i)}
        keys == {SubSeq(args[i], 3, Len(args[i])) : i \in flagsAt}
        last(key) == CHOOSE i \in flagsAt :
                        /\ SubSeq(args[i], 3, Len(args[i])) = key
                        /\ \A j \in flagsAt :
                              SubSeq(args[j], 3, Len(args[j])) = key => j <= i
    IN  [command |-> IF c = 0 THEN << >> ELSE args[c],
         positional |-> IF c = 0 THEN << >>
                        ELSE SelectSeq([i \in DOMAIN args |->
                                          IF i > c /\ i \in free THEN <<args[i]>> ELSE << >>],
                                       LAMBDA x : x # << >>),
         flags |-> [key \in keys |->
                      IF last(key) + 1 \in taken
                      THEN [bool |-> FALSE, str |-> args[last(key) + 1]]
                      ELSE [bool |-> TRUE, str |-> << >>]]]

\* the positional arguments of a parse, each wrapped by ParseGiven
Wrapped(positional) == [i \in DOMAIN positional |-> <<positional[i]>>]

\* C27, as stated: a '--' token followed by a token not starting with '-'
\* takes that token as its value, and the token is then neither the command
\* nor a positional argument; otherwise the flag is the boolean true; the
\* other tokens not starting with '-' after the command are the positional
\* arguments, in their order.
C27_FlagHandling ==
    \A k \in DOMAIN calls :
        calls[k].op = "parseArgs" =>
            LET args == calls[k].arg
                want == ParseGiven(args, {i \in DOMAIN args : FollowsFlag(args, i)})
            IN  /\ calls[k].ret.flags = want.flags
                /\ calls[k].ret.command = want.command
                /\ Wrapped(calls[k].ret.positional) = want.positional

\* C27, amended: a '--' token followed by a non-empty token not starting
\* with '-' takes that token as its value, and the token is then neither
\* the command nor a positional argument; otherwise, also when the next
\* token is the empty string, the flag is the boolean true; the other
\* tokens not starting with '-' after the command are the positional
\* arguments, in their order.
C27_FlagHandlingNonEmptyValue ==
    \A k \in DOMAIN calls :
        calls[k].op = "parseArgs" =>
            LET args == calls[k].arg
                want == ParseGiven(args, {i \in DOMAIN args :
                                            FollowsFlag(args, i) /\ args[i] # << >>})
            IN  /\ calls[k].ret.flags = want.flags
                /\ calls[k].ret.command = want.command
                /\ Wrapped(calls[k].ret.positional) = want.positional

\* a flag before the command took the command name as its value, and a
\* later flag found nothing to take
C27_Witness ==
    /\ calls # << >>
    /\ calls[1].op = "parseArgs"
    /\ calls[1].arg = <<DashDash \o KeyTranscript, CmdShow, <<"-", "-", "o">>>>
    /\ calls[1].ret.command = << >>
    /\ calls[1].ret.flags[KeyTranscript] = FlagString(CmdShow)
    /\ calls[1].ret.flags[<<"o">>] = FlagTrue

(***************************************************************************)
(* Claims about the export filename (SpecSlug).                            *)
(***************************************************************************)
\* a character of [a-z0-9]
IsSlugChar(c) ==
    c \in {"a", "b", "c", "d", "e", "f", "g", "h", "i", "j", "k", "l", "m",
           "n", "o", "p", "q", "r", "s", "t", "u", "v", "w", "x", "y", "z",
           "0", "1", "2", "3", "4", "5", "6", "7", "8", "9"}

\* the lowercase title with the first character of every maximal run of
\* characters outside [a-z0-9] turned into '-' and the rest of the run
\* left out
RunsCollapsed(title) ==
    LET low == ToLowerCase(title)
        marked == [i \in DOMAIN low |->
                     IF IsSlugChar(low[i]) THEN <<low[i]>>
                     ELSE IF i = 1 \/ IsSlugChar(low[i - 1]) THEN <<"-">>
                     ELSE << >>]
    IN  Flatten(marked)

\* the first n characters of s
FirstChars(s, n) == SubSeq(s, 1, IF Len(s) < n THEN Len(s) ELSE n)

\* C22: the export filename is the YYYY-MM-DD of the creation date, '-',
\* the slug and '.md', where the slug is the lowercased title with every
\* maximal run of characters outside [a-z0-9] replaced by one '-', cut to
\* 50 characters: it has only characters of [a-z0-9-], no two adjacent
\* '-', and at most 50 characters.
C22_ExportFilename ==
    \A k \in DOMAIN calls :
        calls[k].op = "filename" =>
            LET slug == FirstChars(RunsCollapsed(calls[k].arg.title), 50)
                day == (calls[k].arg.created_at[1] \div MsPerDay) + 1
            IN  /\ calls[k].ret =
                      <<"2", "0", "2", "6", "-", "0", "1", "-",
                        Digits[(day \div 10) + 1], Digits[(day % 10) + 1], "-">>
                      \o slug \o <<".", "m", "d">>
                /\ \A i \in DOMAIN slug : IsSlugChar(slug[i]) \/ slug[i] = "-"
                /\ \A i \in 1..(Len(slug) - 1) : ~(slug[i] = "-" /\ slug[i + 1] = "-")
                /\ Len(slug) <= 50

\* a title of 52 characters that ends in an uppercase letter after a run
\* of two separators: the run became one '-', the slug was cut at 50
\* characters and lost the letter
C22_Witness ==
    /\ calls # << >>
    /\ calls[1].op = "filename"
    /\ Len(calls[1].arg.title) = 52
    /\ SubSeq(calls[1].arg.title, 50, 52) = <<" ", "-", "B">>
    /\ Len(calls[1].ret) = 11 + 50 + 3
    /\ SubSeq(calls[1].ret, 60, 61) = <<"x", "-">>

(***************************************************************************)
(* Claims about the rendering of a document (Spec).                        *)
(***************************************************************************)
\* the attendee's full name, else the email, else nothing
NameOrEmail(a) == IF a.fullName # << >> THEN a.fullName ELSE a.email

\* what the attendees who have a name or an email are rendered as, in order
RenderedAttendees(d) ==
    SelectSeq([i \in DOMAIN d.attendees |-> NameOrEmail(d.attendees[i])],
              LAMBDA n : n # << >>)

\* the lines of the given kind among the lines
LinesOfKind(lines, kind) == SelectSeq(lines, LAMBDA l : l.kind = kind)

\* C24: what show prints with formatDocument has each attendee as the full
\* name, else the email; an attendee with neither adds nothing to the
\* Participants line, and there is no Participants line when every
\* attendee is of that kind.
C24_AttendeeWithoutNameOmitted ==
    (pc = "exited" /\ Resolved(CmdShow) /\ doc # << >>) =>
        LinesOfKind(stdout, "participants") =
            (IF RenderedAttendees(doc[1]) = << >> THEN << >>
             ELSE <<Line("participants", Join(RenderedAttendees(doc[1]), <<",", " ">>))>>)

\* the files other than the cache file, with their contents
ExportedFiles == [path \in DOMAIN fs \ {CACHE_PATH} |-> fs[path]]

\* the lines hold a section with this heading
HasSection(lines, heading) == \E i \in DOMAIN lines : lines[i] = Line("h2", heading)

\* C23: the file a finished export has written holds a Participants line,
\* a Summary section and a Notes section exactly when formatDocument(doc,
\* true) holds them for the exported document.
C23_ExportSectionsAsFormatDocument ==
    (pc = "exited" /\ Resolved(CmdExport) /\ doc # << >>) =>
        \A path \in DOMAIN ExportedFiles :
            /\ (LinesOfKind(ExportedFiles[path], "participants") # << >>)
                  <=> (LinesOfKind(formatDocument(doc[1], TRUE), "participants") # << >>)
            /\ HasSection(ExportedFiles[path], <<"S", "u", "m", "m", "a", "r", "y">>)
                  <=> HasSection(formatDocument(doc[1], TRUE), <<"S", "u", "m", "m", "a", "r", "y">>)
            /\ HasSection(ExportedFiles[path], <<"N", "o", "t", "e", "s">>)
                  <=> HasSection(formatDocument(doc[1], TRUE), <<"N", "o", "t", "e", "s">>)

(***************************************************************************)
(* Claims about the files an invocation writes (Spec).                     *)
(***************************************************************************)
\* the files on disk that main() did not find there
WrittenFiles ==
    {path \in DOMAIN fs : path # CACHE_PATH}

\* C25: an invocation writes at most one file, and only an export that
\* succeeds writes one: while main() runs and after any other end (list,
\* show, search, help, an unknown command, an export that fails) no file
\* has been written.
C25_AtMostOneFileWritten ==
    /\ Cardinality(WrittenFiles) <= 1
    /\ WrittenFiles # {} =>
          /\ pc = "exited"
          /\ exitCode = <<0>>
          /\ parsed.command = CmdExport
          /\ parsed.positional # << >>
          /\ CacheLoads
          /\ doc # << >>
          /\ stderr = << >>

\* an export has written its file into a directory it made, and exited
\* with code 0
C25_Witness ==
    /\ pc = "exited"
    /\ parsed.command = CmdExport
    /\ exitCode = <<0>>
    /\ Cardinality(WrittenFiles) = 1
    /\ dirs # {CACHE_DIR}
    /\ Len(documents) = 2

(***************************************************************************)
(* Claims about the days of list (Spec).                                   *)
(***************************************************************************)
\* listMeetings has run: its first line of output shows the days it was
\* given, which it passed to getRecentDocuments
ListedDays == stdout[1].time[1]

\* C26: the days main() passes on for list are always a positive integer,
\* whatever follows --days.
C26_DaysPositiveInteger ==
    (pc = "exited" /\ CommandGiven /\ CacheLoads /\ parsed.command = CmdList) =>
        ListedDays > 0

(***************************************************************************)
(* Claims about show and export together (Spec).                           *)
(***************************************************************************)
\* the outcome of an identifier resolution as main() shows it once the
\* command is past it: the document chosen, and what the resolution wrote
\* to the error stream
ShownOutcome(r) ==
    /\ doc = r.doc
    /\ r.kind # "found" => stderr = r.stderr /\ exitCode = <<1>> /\ stdout = << >>

\* C28, as stated: show and export resolve an identifier alike: a show
\* ends as exportMeeting's resolution of its argument says, an export as
\* showMeeting's resolution says, and each has exited with code 1 exactly
\* when the other's resolution fails.
C28_SameResolution ==
    /\ (pc = "exited" /\ Resolved(CmdShow)) =>
          /\ ShownOutcome(ExportResolve(parsed.positional[1]))
          /\ exitCode = <<1>> <=> ExportResolve(parsed.positional[1]).kind # "found"
    /\ (pc = "exited" /\ Resolved(CmdExport)) =>
          /\ ShownOutcome(ShowResolve(parsed.positional[1]))
          /\ exitCode = <<1>> <=> ShowResolve(parsed.positional[1]).kind # "found"

\* C28, amended: show and export resolve an identifier alike and exit
\* with code 1 at the resolution in the same cases; after a resolution
\* that found the document show exits with code 0, and export exits with
\* code 0 or, when making the directory, building the filename or writing
\* the file throws, with code 1 and the exception on the error stream.
C28_SameResolutionThenExportMayThrow ==
    /\ (pc = "exited" /\ Resolved(CmdShow)) =>
          /\ ShownOutcome(ExportResolve(parsed.positional[1]))
          /\ exitCode = <<1>> <=> ExportResolve(parsed.positional[1]).kind # "found"
    /\ (pc = "exited" /\ Resolved(CmdExport)) =>
          /\ ShownOutcome(ShowResolve(parsed.positional[1]))
          /\ ShowResolve(parsed.positional[1]).kind = "found" =>
                \/ exitCode = <<0>> /\ stderr = << >>
                \/ /\ exitCode = <<1>>
                   /\ Len(stderr) = 1
                   /\ stderr[1].kind = "uncaught"
                   /\ WrittenFiles = {}

\* an export of a prefix that two identifiers start with has exited where
\* showMeeting's resolution is the list of both candidates
C28_Witness ==
    /\ pc = "exited"
    /\ Resolved(CmdExport)
    /\ ShowResolve(parsed.positional[1]).kind = "ambiguous"
    /\ Len(ShowResolve(parsed.positional[1]).stderr) = 3
    /\ stderr = ShowResolve(parsed.positional[1]).stderr
    /\ exitCode = <<1>>

\* C29: a failed export leaves the disk as it was: when an export has
\* exited with code 1 for a missing argument, an identifier that is not
\* found or is ambiguous, or a cache that does not load, no directory has
\* been made and no file written; and an export that has made its output
\* directory has written its file when it exits.
C29_FailedExportLeavesNothing ==
    (pc = "exited" /\ CommandGiven /\ parsed.command = CmdExport) =>
        /\ (\/ ~CacheLoads
            \/ parsed.positional = << >>
            \/ ExportResolve(parsed.positional[1]).kind # "found")
              => /\ exitCode = <<1>>
                 /\ dirs = {CACHE_DIR}
                 /\ WrittenFiles = {}
        /\ dirs # {CACHE_DIR} => WrittenFiles # {}

(***************************************************************************)
(* Claims about the order of main()'s checks (Spec).                       *)
(***************************************************************************)
\* C30: the check for help comes before the cache is loaded, and the load
\* before the command is looked at: with no command or with --help the
\* process exits with code 0 and no error, whatever the cache file is; with
\* a command and a cache that does not load, the load error is the one
\* message and the exit code is 1, whatever the command and its arguments
\* are; and a command is dispatched only with a loaded cache.
C30_HelpThenLoadThenDispatch ==
    /\ pc = "exited" =>
          /\ HelpAsked => exitCode = <<0>> /\ stderr = << >>
          /\ (CommandGiven /\ ~CacheLoads)
                => /\ exitCode = <<1>>
                   /\ stderr = <<GranolaCache(<< >>).error>>
                   /\ stdout = << >>
    /\ pc \in {"dispatch", "export_mkdir", "export_write"} => CommandGiven /\ CacheLoads

\* show --help has printed the usage text and exited with code 0 although
\* the cache file does not parse
C30_Witness ==
    /\ pc = "exited"
    /\ parsed.command = CmdShow
    /\ Truthy(Flag(parsed.flags, KeyHelp))
    /\ CACHE_PATH \in DOMAIN fs
    /\ fs[CACHE_PATH] = MalformedJson
    /\ exitCode = <<0>>
    /\ stdout = <<Line("usage", << >>)>>

=============================================================================
